---- MODULE Spec2Model ----
(***************************************************************************)
(* Model of the TBEP data scripts: the header classifier and seed of       *)
(* gene-universal-seed.js, the sparse seed of                              *)
(* gene-opentargets-disease-association-seed.js, the two deletion scripts  *)
(* (Property-node registry and Stats-node registry) and the property       *)
(* description update, acting on one Neo4j database.                       *)
(*                                                                         *)
(* Strings are TLA+ strings; JavaScript `undefined` and Cypher `null` are  *)
(* the reserved strings Undefined and Null, which no input contains.       *)
(***************************************************************************)
EXTENDS Integers, Sequences, FiniteSets, TLC

VARIABLES genes, nodes, edges, stats, last, cls, ref, rels

vars == <<genes, nodes, edges, stats, last, cls, ref, rels>>

Undefined == "<undefined>"
Null == "<null>"

(***************************************************************************)
(* Bounds of the model                                                     *)
(***************************************************************************)
\* Runs in a behaviour
MaxOps == 3

\* Rows of one batch of CALL { ... } IN CONCURRENT TRANSACTIONS
BatchRows == 2

(***************************************************************************)
(* String primitives of JavaScript and Cypher                              *)
(***************************************************************************)
UpperAlpha == "ABCDEFGHIJKLMNOPQRSTUVWXYZ"
LowerAlpha == "abcdefghijklmnopqrstuvwxyz"

CharAt(s, i) == SubSeq(s, i, i)

Slice(s, n) == SubSeq(s, n + 1, Len(s))

ToLowerChar(c) ==
  IF \E i \in 1..26 : CharAt(UpperAlpha, i) = c
  THEN CharAt(LowerAlpha, CHOOSE i \in 1..26 : CharAt(UpperAlpha, i) = c)
  ELSE c

ToUpperChar(c) ==
  IF \E i \in 1..26 : CharAt(LowerAlpha, i) = c
  THEN CharAt(UpperAlpha, CHOOSE i \in 1..26 : CharAt(LowerAlpha, i) = c)
  ELSE c

RECURSIVE ToLower(_)
ToLower(s) == IF Len(s) = 0 THEN "" ELSE ToLowerChar(CharAt(s, 1)) \o ToLower(Slice(s, 1))

RECURSIVE ToUpper(_)
ToUpper(s) == IF Len(s) = 0 THEN "" ELSE ToUpperChar(CharAt(s, 1)) \o ToUpper(Slice(s, 1))

StartsWith(s, p) == Len(p) <= Len(s) /\ SubSeq(s, 1, Len(p)) = p

EndsWith(s, p) == Len(p) <= Len(s) /\ SubSeq(s, Len(s) - Len(p) + 1, Len(s)) = p

Contains(s, p) == \E i \in 0..(Len(s) - Len(p)) : SubSeq(s, i + 1, i + Len(p)) = p

\* new RegExp(`^${p}`, "i").test(s), for p without regular-expression metacharacters
StartsWithI(s, p) == StartsWith(ToLower(s), ToLower(p))

\* new RegExp(`^${p}$`, "i").test(s), for p without regular-expression metacharacters
EqualsI(s, p) == ToLower(s) = ToLower(p)

Truthy(s) == s # Undefined /\ s # Null /\ s # ""

Range(f) == {f[i] : i \in DOMAIN f}

\* Array.prototype.find / first match of a `for ... of` loop: index of the first element satisfying P, 0 if none
FirstIndex(seq, P(_)) ==
  IF \E i \in 1..Len(seq) : P(seq[i])
  THEN CHOOSE i \in 1..Len(seq) : P(seq[i]) /\ \A j \in 1..(i - 1) : ~P(seq[j])
  ELSE 0

(***************************************************************************)
(* gene-universal-seed.js: rule tables                                     *)
(***************************************************************************)
GENERAL_SYMBOLS == <<"hgnc_gene_id", "Description", "Gene_name", "Gene name">>

DISEASE_DEPENDENT_FIELDS == <<"GWAS", "GDA", "LogFC", "Genetics", "DEG">>

DISEASE_INDEPENDENT_FIELDS == <<"Druggability_Score", "Pathway", "Druggability", "TE", "Database">>

DISEASE_MAP == <<"ALS", "PSP", "FTD", "OI">>

\* RENAMED_FIELDS[field] ?? field
RENAMED_FIELDS(field) ==
  CASE field = "Druggability_Score" -> "Druggability"
    [] field = "GWAS" -> "OpenTargets"
    [] field = "GDA" -> "OpenTargets"
    [] field = "Genetics" -> "OpenTargets"
    [] field = "LogFC" -> "DEG"
    [] field = "Gene name" -> "Gene_name"
    [] OTHER -> field

(***************************************************************************)
(* gene-universal-seed.js: header classification                           *)
(***************************************************************************)
IsTrimChar(c) == c \in {" ", "'", "\"", "\t"}

RECURSIVE StripLeft(_)
StripLeft(s) == IF Len(s) > 0 /\ IsTrimChar(CharAt(s, 1)) THEN StripLeft(Slice(s, 1)) ELSE s

RECURSIVE StripRight(_)
StripRight(s) ==
  IF Len(s) > 0 /\ IsTrimChar(CharAt(s, Len(s))) THEN StripRight(SubSeq(s, 1, Len(s) - 1)) ELSE s

\* header.trim().replace(/^['\s"]*|['\s"]*$/g, "")
TrimHeader(raw) == StripRight(StripLeft(raw))

\* /target_prioritization_score.csv$/.test(file): the dot matches any one character
IsPrioritizationFile(file) ==
  /\ Len(file) >= Len("target_prioritization_score.csv")
  /\ EndsWith(file, "csv")
  /\ EndsWith(SubSeq(file, 1, Len(file) - 4), "target_prioritization_score")

\* header.replace(new RegExp(`^${disease}_`, "i"), "")
StripDisease(header, disease) ==
  IF StartsWithI(header, disease \o "_") THEN Slice(header, Len(disease) + 1) ELSE header

\* the callback of initialHeaders.map: the canonical name of one raw header, Undefined when it is ignored
ClassifyHeader(file, symbols, disease, raw) ==
  LET header == TrimHeader(raw)
      gi == FirstIndex(symbols, LAMBDA f : EqualsI(header, f))
      drHeader == StripDisease(header, disease)
      di == FirstIndex(DISEASE_DEPENDENT_FIELDS, LAMBDA f : StartsWithI(drHeader, f \o "_"))
      ii == FirstIndex(DISEASE_INDEPENDENT_FIELDS, LAMBDA f : StartsWithI(header, f \o "_"))
  IN  IF IsPrioritizationFile(file) THEN "OT_Prioritization_" \o header
      ELSE IF gi # 0 THEN RENAMED_FIELDS(symbols[gi])
      ELSE IF Truthy(disease) /\ di # 0
        THEN disease \o "_" \o RENAMED_FIELDS(DISEASE_DEPENDENT_FIELDS[di]) \o "_"
               \o Slice(drHeader, Len(DISEASE_DEPENDENT_FIELDS[di]) + 1)
      ELSE IF ii # 0
        THEN RENAMED_FIELDS(DISEASE_INDEPENDENT_FIELDS[ii]) \o "_"
               \o Slice(header, Len(DISEASE_INDEPENDENT_FIELDS[ii]) + 1)
      ELSE Undefined

\* the disease-dependent category a trimmed header starts with once an optional `D_` is stripped, 0 for none
DependentIndex(header, disease) ==
  FirstIndex(DISEASE_DEPENDENT_FIELDS, LAMBDA f : StartsWithI(StripDisease(header, disease), f \o "_"))

\* the general symbol a trimmed header equals case-insensitively, 0 for none
SymbolIndex(header, symbols) == FirstIndex(symbols, LAMBDA f : EqualsI(header, f))

\* disease = DISEASE_MAP.find((d) => file.includes(d)); disease ||= answers.disease?.toUpperCase()
\* (the prompt asks for the disease unless --diseaseIndependent is set; the -D flag is overwritten)
ResolveDisease(file, flagDisease, diseaseIndependent, answer) ==
  LET mi == FirstIndex(DISEASE_MAP, LAMBDA d : Contains(file, d))
  IN  IF mi # 0 THEN DISEASE_MAP[mi]
      ELSE IF diseaseIndependent THEN Undefined
      ELSE ToUpper(answer)

(***************************************************************************)
(* The Neo4j database: Gene nodes, registry nodes, HAS_PROPERTY edges      *)
(***************************************************************************)
\* A property value stored on a node: a string, a float (written as its canonical numeral) or null
StringValue(s) == [type |-> "string", v |-> s]
FloatValue(s) == [type |-> "float", v |-> s]
NullValue == [type |-> "null", v |-> ""]

\* Cypher toFloat(cell) on the cells the input files use: null for a cell that is no number
ToFloat(cell) ==
  CASE cell = "0.6" -> FloatValue("0.6")
    [] cell = "0.60" -> FloatValue("0.6")
    [] cell = "0.3" -> FloatValue("0.3")
    [] cell = "1" -> FloatValue("1.0")
    [] OTHER -> NullValue

\* LOAD CSV: an empty field is null, any other field is the string itself
CsvCell(cell) == IF cell = "" THEN NullValue ELSE StringValue(cell)

\* SET g.key = value / apoc.create.setProperty(g, key, value): null removes the property
SetProperty(props, key, value) ==
  IF value.type = "null"
  THEN [k \in (DOMAIN props) \ {key} |-> props[k]]
  ELSE [k \in (DOMAIN props) \cup {key} |-> IF k = key THEN value ELSE props[k]]

\* apoc.create.removeProperties(g, keys)
RemoveProperties(props, keys) == [k \in (DOMAIN props) \ keys |-> props[k]]

\* A registry node: its labels and the properties ID, name, description (Null when absent)
NodeIds(ns) == {n.id : n \in ns}

NewId(ns) == CHOOSE i \in 1..(Cardinality(ns) + 1) : i \notin NodeIds(ns)

\* MATCH (n:labels { pattern }): pattern fields that are Null are not part of the pattern
MatchNodes(ns, labels, pattern) ==
  {n \in ns : /\ labels \subseteq n.labels
              /\ pattern.ID \in {Null, n.ID}
              /\ pattern.name \in {Null, n.name}
              /\ pattern.description \in {Null, n.description}}

CreateNode(ns, labels, pattern) ==
  ns \cup {[id |-> NewId(ns), labels |-> labels, ID |-> pattern.ID, name |-> pattern.name,
            description |-> pattern.description]}

\* CREATE in place of MERGE: a node is created whether or not one matches
MergeNodeCreating(ns, labels, pattern) == CreateNode(ns, labels, pattern)

\* MERGE (n:labels { pattern }): match, or create when nothing matches
MergeNode(ns, labels, pattern) ==
  IF MatchNodes(ns, labels, pattern) # {} THEN ns ELSE CreateNode(ns, labels, pattern)

\* MERGE (d)-[:HAS_PROPERTY]->(p) for every matched d and p
MergeEdges(es, ds, ps) == es \cup {<<d.id, p.id>> : d \in ds, p \in ps}

\* DETACH DELETE of the nodes in dead
DetachDelete(db, dead) ==
  [nodes |-> db.nodes \ dead,
   edges |-> {e \in db.edges : e[1] \notin NodeIds(dead) /\ e[2] \notin NodeIds(dead)}]

NamePattern(name) == [ID |-> Null, name |-> name, description |-> Null]

\* UNWIND $commonHeaders AS commonHeader CREATE (cp:Common&Property { ... }) in place of MERGE
RECURSIVE MergeCommonPropertiesCreating(_, _)
MergeCommonPropertiesCreating(ns, commonHeaders) ==
  IF commonHeaders = <<>> THEN ns
  ELSE MergeCommonPropertiesCreating(
         CreateNode(ns, {"Common", "Property"},
                    [ID |-> Null, name |-> Head(commonHeaders), description |-> Head(commonHeaders)]),
         Tail(commonHeaders))

\* UNWIND $commonHeaders AS commonHeader MERGE (cp:Common&Property { name: commonHeader, description: commonHeader })
RECURSIVE MergeCommonProperties(_, _)
MergeCommonProperties(ns, commonHeaders) ==
  IF commonHeaders = <<>> THEN ns
  ELSE MergeCommonProperties(
         MergeNode(ns, {"Common", "Property"},
                   [ID |-> Null, name |-> Head(commonHeaders), description |-> Head(commonHeaders)]),
         Tail(commonHeaders))

\* UNWIND $diseaseHeaders AS diseaseHeader MERGE (dp:Disease&Property { name: diseaseHeader }) MERGE (d)-[:HAS_PROPERTY]->(dp)
\* for the rows d that MERGE (d:Disease { ID: $disease }) produced
RECURSIVE MergeDiseaseProperties(_, _, _)
MergeDiseaseProperties(db, disease, diseaseHeaders) ==
  IF diseaseHeaders = <<>> THEN db
  ELSE LET ns == MergeNode(db.nodes, {"Disease", "Property"}, NamePattern(Head(diseaseHeaders)))
           ds == MatchNodes(ns, {"Disease"}, [ID |-> disease, name |-> Null, description |-> Null])
           ps == MatchNodes(ns, {"Disease", "Property"}, NamePattern(Head(diseaseHeaders)))
       IN  MergeDiseaseProperties([nodes |-> ns, edges |-> MergeEdges(db.edges, ds, ps)],
                                  disease, Tail(diseaseHeaders))

\* MERGE (d:Disease { ID: $disease }) WITH d UNWIND $diseaseHeaders ...
MergeDiseaseAndProperties(db, disease, diseaseHeaders) ==
  MergeDiseaseProperties(
    [nodes |-> MergeNode(db.nodes, {"Disease"}, [ID |-> disease, name |-> Null, description |-> Null]),
     edges |-> db.edges],
    disease, diseaseHeaders)

(***************************************************************************)
(* gene-universal-seed.js: the seed run                                    *)
(***************************************************************************)
\* Path.extname(file): from the last dot of the last path segment, "" when there is none or it leads the segment
ExtName(file) ==
  LET dots == {i \in 1..Len(file) : CharAt(file, i) = "."}
      d == CHOOSE i \in dots : \A j \in dots : j <= i
  IN  IF dots = {} THEN ""
      ELSE IF d = 1 \/ CharAt(file, d - 1) = "/" \/ Contains(Slice(file, d), "/") THEN ""
      ELSE Slice(file, d - 1)

\* the field name LOAD CSV WITH HEADERS gives a column: enclosing double quotes are CSV quoting
CsvField(raw) ==
  IF Len(raw) >= 2 /\ CharAt(raw, 1) = "\"" /\ CharAt(raw, Len(raw)) = "\""
  THEN SubSeq(raw, 2, Len(raw) - 1) ELSE raw

\* query.replace(/"/g, "") applied to a name spliced into the query
RECURSIVE RemoveQuotes(_)
RemoveQuotes(s) ==
  IF Len(s) = 0 THEN ""
  ELSE (IF CharAt(s, 1) = "\"" THEN "" ELSE CharAt(s, 1)) \o RemoveQuotes(Slice(s, 1))

\* row.`key` of LOAD CSV WITH HEADERS: the cell of the (last) column with that field name, null without one
RowValue(header, row, key) ==
  LET cols == {j \in 1..Len(header) : CsvField(header[j]) = key /\ j <= Len(row)}
  IN  IF cols = {} THEN NullValue
      ELSE CsvCell(row[CHOOSE j \in cols : \A k \in cols : k <= j])

\* a header that matches no rule ends the classification: no header is kept
MappedHeadersAllOrNone(f, disease) ==
  LET mapped == [j \in 1..(Len(f.header) - 1) |->
                   ClassifyHeader(f.name, GENERAL_SYMBOLS \o f.forced, disease, f.header[j + 1])]
  IN  IF Undefined \in Range(mapped) THEN [j \in DOMAIN mapped |-> Undefined] ELSE mapped

\* initialHeaders.map(...) after initialHeaders.shift(): one entry per data column
MappedHeaders(f, disease) ==
  [j \in 1..(Len(f.header) - 1) |->
     ClassifyHeader(f.name, GENERAL_SYMBOLS \o f.forced, disease, f.header[j + 1])]

\* .filter(Boolean)
RECURSIVE FilterBoolean(_)
FilterBoolean(seq) ==
  IF seq = <<>> THEN <<>>
  ELSE (IF Truthy(Head(seq)) THEN <<Head(seq)>> ELSE <<>>) \o FilterBoolean(Tail(seq))

\* finalToInitialHeaders[res]: the trimmed header of the last column classified to res
FinalToInitialHeaders(f, disease, res) ==
  LET mapped == MappedHeaders(f, disease)
      cols == {j \in DOMAIN mapped : mapped[j] = res}
  IN  TrimHeader(f.header[1 + CHOOSE j \in cols : \A k \in cols : k <= j])

\* SET g.`header` = row.`finalToInitialHeaders[header]` for every header of one row:
\* the SET items as <<property, value>> pairs, in order
RowSets(f, disease, row, headers) ==
  [i \in 1..Len(headers) |->
     <<RemoveQuotes(headers[i]),
       RowValue(f.header, row, RemoveQuotes(FinalToInitialHeaders(f, disease, headers[i])))>>]

\* the rows of LOAD CSV WITH HEADERS as the query sees them: row.`ID` and the SET items
QueryRows(f, disease, headers) ==
  [r \in 1..Len(f.rows) |->
     [id |-> RowValue(f.header, f.rows[r], RemoveQuotes(f.header[1])),
      sets |-> RowSets(f, disease, f.rows[r], headers)]]

\* SET g = { ... } in place of SET g.`header` = ...: the row's values replace the gene's properties
SetAllReplacing(props, sets) ==
  [k \in {sets[i][1] : i \in {j \in DOMAIN sets : sets[j][2].type # "null"}} |->
     sets[CHOOSE i \in DOMAIN sets : sets[i][1] = k][2]]

RECURSIVE SetAll(_, _)
SetAll(props, sets) ==
  IF sets = <<>> THEN props
  ELSE SetAll(SetProperty(props, Head(sets)[1], Head(sets)[2]), Tail(sets))

\* MERGE (g:Gene { ID: row.`ID` }) in place of MATCH: a row whose gene is absent creates it
RECURSIVE SeedRowsMerging(_, _)
SeedRowsMerging(gs, rows) ==
  IF rows = <<>> THEN gs
  ELSE LET id == Head(rows).id
           ids == DOMAIN gs \cup (IF id.type = "string" THEN {id.v} ELSE {})
       IN  SeedRowsMerging([g \in ids |->
                              IF id = StringValue(g)
                              THEN SetAll(IF g \in DOMAIN gs THEN gs[g] ELSE <<>>, Head(rows).sets)
                              ELSE gs[g]],
                           Tail(rows))

\* MATCH (g:Gene { ID: row.`ID` }) SET ..., row after row
RECURSIVE SeedRows(_, _)
SeedRows(gs, rows) ==
  IF rows = <<>> THEN gs
  ELSE SeedRows([g \in DOMAIN gs |->
                   IF Head(rows).id = StringValue(g) THEN SetAll(gs[g], Head(rows).sets) ELSE gs[g]],
                Tail(rows))

\* CALL { ... } IN 24 CONCURRENT TRANSACTIONS: the rows go to the inner query in batches of
\* consecutive rows, each batch in a transaction of its own, and up to 24 of them run at once, so
\* the batches of a file of at most 24 batches commit in any order. BatchRows is the number of rows
\* of a batch (the engine's default is 1000), scaled to the files of the model.
NumBatches(rows) == (Len(rows) + BatchRows - 1) \div BatchRows

Batch(rows, b) ==
  SubSeq(rows, (b - 1) * BatchRows + 1,
         IF b * BatchRows < Len(rows) THEN b * BatchRows ELSE Len(rows))

\* the orders in which the batches can commit
CommitOrders(rows) ==
  {o \in [1..NumBatches(rows) -> 1..NumBatches(rows)] :
     \A i, j \in 1..NumBatches(rows) : i # j => o[i] # o[j]}

\* the rows in the order one commit order applies them
RECURSIVE ConcatBatches(_, _)
ConcatBatches(rows, order) ==
  IF order = <<>> THEN <<>>
  ELSE Batch(rows, Head(order)) \o ConcatBatches(rows, Tail(order))

\* the row sequences the engine can apply for the rows of one file
Schedules(rows) == {ConcatBatches(rows, o) : o \in CommitOrders(rows)}

\* the orders in which the batches of a set can commit
SubsetOrders(S) ==
  {o \in [1..Cardinality(S) -> S] : \A i, j \in 1..Cardinality(S) : i # j => o[i] # o[j]}

\* a failing statement that is run again until every batch has committed
PartialSchedulesRetried(rows) == Schedules(rows)

\* a statement that fails in one batch (ON ERROR FAIL, the default): the batches that committed
\* before stay committed, the failing batch is rolled back, no later batch runs and the statement
\* throws. The row sequences the engine can have applied by then: any batches but all of them,
\* in any order (nothing at all for a file without rows)
PartialSchedules(rows) ==
  IF NumBatches(rows) = 0 THEN {<<>>}
  ELSE UNION {{ConcatBatches(rows, o) : o \in SubsetOrders(S)} :
                S \in (SUBSET (1..NumBatches(rows))) \ {1..NumBatches(rows)}}

\* headers.reduce(...): the headers that start with `${disease}_` when a disease is set
RECURSIVE DiseaseHeaders(_, _)
DiseaseHeaders(headers, disease) ==
  IF headers = <<>> THEN <<>>
  ELSE (IF Truthy(disease) /\ StartsWith(Head(headers), disease \o "_") THEN <<Head(headers)>> ELSE <<>>)
       \o DiseaseHeaders(Tail(headers), disease)

RECURSIVE CommonHeaders(_, _)
CommonHeaders(headers, disease) ==
  IF headers = <<>> THEN <<>>
  ELSE (IF Truthy(disease) /\ StartsWith(Head(headers), disease \o "_") THEN <<>> ELSE <<Head(headers)>>)
       \o CommonHeaders(Tail(headers), disease)

\* The session.run calls of the seed in order; a fault names the call that throws (or where the process dies)
SeedFaults == {"none", "query", "index", "common", "disease"}

SeedCompleted(fault) ==
  CASE fault = "query" -> 0 [] fault = "index" -> 1 [] fault = "common" -> 2
    [] fault = "disease" -> 3 [] OTHER -> 4

\* the run of the script without the check of the file extension
SeedPlanAnyExtension(f) ==
  LET disease == ResolveDisease(f.name, f.flagDisease, f.di, f.answer)
      headers == FilterBoolean(MappedHeaders(f, disease))
  IN  [disease |-> disease,
       headers |-> headers,
       valid |-> f.exists /\ Len(f.header) >= 2 /\ headers # <<>>,
       rows |-> QueryRows(f, disease, headers),
       schedules |-> Schedules(QueryRows(f, disease, headers)),
       partials |-> PartialSchedules(QueryRows(f, disease, headers)),
       commonHeaders |-> CommonHeaders(headers, disease),
       diseaseHeaders |-> DiseaseHeaders(headers, disease)]

\* What a run of the script on file f computes before it touches the database
SeedPlan(f) ==
  LET disease == ResolveDisease(f.name, f.flagDisease, f.di, f.answer)
      headers == FilterBoolean(MappedHeaders(f, disease))
  IN  [disease |-> disease,
       headers |-> headers,
       valid |-> ExtName(f.name) = ".csv" /\ f.exists /\ Len(f.header) >= 2 /\ headers # <<>>,
       rows |-> QueryRows(f, disease, headers),
       schedules |-> Schedules(QueryRows(f, disease, headers)),
       partials |-> PartialSchedules(QueryRows(f, disease, headers)),
       commonHeaders |-> CommonHeaders(headers, disease),
       diseaseHeaders |-> DiseaseHeaders(headers, disease)]

\* The registry as a run finds it
Registry == [nodes |-> nodes, edges |-> edges]

\* One run of gene-universal-seed.js on a file with plan p
UniversalSeed(name, p, fault) ==
  LET \* $disease is left out of the parameters when undefined: the last query is rejected
      done == IF p.disease = Undefined /\ SeedCompleted(fault) > 3 THEN 3 ELSE SeedCompleted(fault)
      ns1 == MergeCommonProperties(nodes, p.commonHeaders)
      db2 == MergeDiseaseAndProperties([nodes |-> ns1, edges |-> edges], p.disease, p.diseaseHeaders)
  IN  /\ \E rows \in (IF done >= 1 THEN p.schedules ELSE p.partials) :
           genes' = IF p.valid THEN SeedRows(genes, rows) ELSE genes
      /\ nodes' = IF p.valid /\ done >= 4 THEN db2.nodes ELSE IF p.valid /\ done >= 3 THEN ns1 ELSE nodes
      /\ edges' = IF p.valid /\ done >= 4 THEN db2.edges ELSE edges
      /\ last' = [op |-> "UniversalSeed", arg |-> name, fault |-> fault,
                  again |-> last.op = "UniversalSeed" /\ last.arg = name /\ last.fault = fault /\ last.outcome # "invalid",
                  retry |-> last.op = "UniversalSeed" /\ last.arg = name /\ last.fault # "none" /\ last.outcome = "error",
                  outcome |-> IF ~p.valid THEN "invalid" ELSE IF done = 4 THEN "ok" ELSE "error",
                  pre |-> Registry, preGenes |-> genes, n |-> last.n + 1]
      /\ UNCHANGED <<stats, cls, ref, rels>>

(***************************************************************************)
(* gene-opentargets-disease-association-seed.js: the sparse seed run       *)
(***************************************************************************)
\* LOAD CSV ... MATCH (g:Gene { ID: line[0] }) CALL apoc.create.setProperty(g, line[1], toFloat(line[2])):
\* the rows as the query sees them, line[0] and the one property each sets
SparseQueryRows(f) ==
  [r \in 1..Len(f.rows) |->
     [id |-> CsvCell(f.rows[r][1]),
      sets |-> << <<f.rows[r][2], ToFloat(f.rows[r][3])>> >>]]

\* Papa.parse step/complete: the second column of every row, then result.slice(1)
SecondColumn(rows) == [i \in 1..(Len(rows) - 1) |-> rows[i + 1][2]]

\* val.split("_OpenTargets_").at(0)
SplitDisease(val) ==
  LET hits == {i \in 0..(Len(val) - Len("_OpenTargets_")) :
                 SubSeq(val, i + 1, i + Len("_OpenTargets_")) = "_OpenTargets_"}
  IN  IF hits = {} THEN val ELSE SubSeq(val, 1, CHOOSE i \in hits : \A j \in hits : i <= j)

\* secondColumn.reduce(..., {}): acc is a plain object, so acc.has(...) throws on the first element
ReduceThrows(secondColumn) == Len(secondColumn) > 0

\* MERGE (d:Disease { ID: disease }) ... MERGE (p:Property { name: header }) MERGE (d)-[:HAS_PROPERTY]->(p)
RECURSIVE DiseaseAndHeadersUpdate(_, _)
DiseaseAndHeadersUpdate(db, secondColumn) ==
  IF secondColumn = <<>> THEN db
  ELSE LET disease == SplitDisease(Head(secondColumn))
           ns1 == MergeNode(db.nodes, {"Disease"}, [ID |-> disease, name |-> Null, description |-> Null])
           ns2 == MergeNode(ns1, {"Property"}, NamePattern(Head(secondColumn)))
           ds == MatchNodes(ns2, {"Disease"}, [ID |-> disease, name |-> Null, description |-> Null])
           ps == MatchNodes(ns2, {"Property"}, NamePattern(Head(secondColumn)))
       IN  DiseaseAndHeadersUpdate([nodes |-> ns2, edges |-> MergeEdges(db.edges, ds, ps)],
                                   Tail(secondColumn))

\* "UNWIND $map AS disease, headers" puts two variables after AS, which is no Cypher statement:
\* the server rejects it before it runs
UnwindMapAccepted == FALSE

SparseFaults == {"none", "query"}

\* What a run of the script on file f computes before it touches the database
SparsePlan(f) ==
  [valid |-> ExtName(f.name) = ".csv" /\ f.exists,
   rows |-> SparseQueryRows(f),
   schedules |-> Schedules(SparseQueryRows(f)),
   partials |-> PartialSchedules(SparseQueryRows(f)),
   secondColumn |-> SecondColumn(f.rows)]

\* One run of gene-opentargets-disease-association-seed.js on a file with plan p
SparseSeed(name, p, fault) ==
  LET registered == p.valid /\ fault = "none" /\ ~ReduceThrows(p.secondColumn) /\ UnwindMapAccepted
      db1 == DiseaseAndHeadersUpdate(Registry, p.secondColumn)
  IN  /\ \E rows \in (IF fault # "query" THEN p.schedules ELSE p.partials) :
           genes' = IF p.valid THEN SeedRows(genes, rows) ELSE genes
      /\ nodes' = IF registered THEN db1.nodes ELSE nodes
      /\ edges' = IF registered THEN db1.edges ELSE edges
      /\ last' = [op |-> "SparseSeed", arg |-> name, fault |-> fault,
                  again |-> last.op = "SparseSeed" /\ last.arg = name /\ last.fault = fault /\ last.outcome # "invalid",
                  retry |-> last.op = "SparseSeed" /\ last.arg = name /\ last.fault # "none" /\ last.outcome = "error",
                  outcome |-> IF ~p.valid THEN "invalid" ELSE IF registered THEN "ok" ELSE "error",
                  pre |-> Registry, preGenes |-> genes, n |-> last.n + 1]
      /\ UNCHANGED <<stats, cls, ref, rels>>

(***************************************************************************)
(* property-description-update.js: descriptions and disease names          *)
(***************************************************************************)
\* LOAD CSV ... MATCH (p:Property { name: line[0] }) SET p.description = line[1]
RECURSIVE DescriptionRows(_, _)
DescriptionRows(ns, rows) ==
  IF rows = <<>> THEN ns
  ELSE LET line == Head(rows)
           hit == MatchNodes(ns, {"Property"}, NamePattern(line[1]))
           ns1 == {IF n \in hit
                   THEN [n EXCEPT !.description = IF line[2] = "" THEN Null ELSE line[2]]
                   ELSE n : n \in ns}
       IN  DescriptionRows(ns1, Tail(rows))

\* One run of the property description update on file f
PropertyDescriptionUpdate(f, fault) ==
  LET valid == ExtName(f.name) = ".csv"
  IN  /\ nodes' = IF valid /\ fault = "none" THEN DescriptionRows(nodes, f.rows) ELSE nodes
      /\ last' = [op |-> "PropertyDescriptionUpdate", arg |-> f.name, fault |-> fault,
                  again |-> last.op = "PropertyDescriptionUpdate" /\ last.arg = f.name /\ last.fault = fault /\ last.outcome # "invalid",
                  retry |-> last.op = "PropertyDescriptionUpdate" /\ last.arg = f.name /\ last.fault # "none" /\ last.outcome = "error",
                  outcome |-> IF ~valid THEN "invalid" ELSE IF fault = "none" THEN "ok" ELSE "error",
                  pre |-> Registry, preGenes |-> genes, n |-> last.n + 1]
      /\ UNCHANGED <<genes, edges, stats, cls, ref, rels>>

\* LOAD CSV ... MATCH (d:Disease { ID: line[0] }) SET d.name = line[1]
RECURSIVE DiseaseNameRows(_, _)
DiseaseNameRows(ns, rows) ==
  IF rows = <<>> THEN ns
  ELSE LET line == Head(rows)
           hit == MatchNodes(ns, {"Disease"}, [ID |-> line[1], name |-> Null, description |-> Null])
           ns1 == {IF n \in hit THEN [n EXCEPT !.name = IF line[2] = "" THEN Null ELSE line[2]]
                   ELSE n : n \in ns}
       IN  DiseaseNameRows(ns1, Tail(rows))

\* MATCH (d:Disease) WHERE d.name IS NULL DELETE d: rejected when such a node still has a relationship
UnnamedDiseases(ns) == {n \in ns : "Disease" \in n.labels /\ n.name = Null}

\* DETACH DELETE in place of DELETE: never rejected
DeleteRejectedNever(es, dead) == FALSE

DeleteRejected(es, dead) == \E e \in es : e[1] \in NodeIds(dead) \/ e[2] \in NodeIds(dead)

\* One run of the disease mapping seed on file f
DiseaseMappingSeed(f, fault) ==
  LET valid == ExtName(f.name) = ".csv"
      ns1 == DiseaseNameRows(nodes, f.rows)
      deleted == valid /\ fault = "none" /\ ~DeleteRejected(edges, UnnamedDiseases(ns1))
  IN  /\ nodes' = IF deleted THEN ns1 \ UnnamedDiseases(ns1)
                  ELSE IF valid /\ fault # "query" THEN ns1 ELSE nodes
      /\ last' = [op |-> "DiseaseMappingSeed", arg |-> f.name, fault |-> fault,
                  again |-> last.op = "DiseaseMappingSeed" /\ last.arg = f.name /\ last.fault = fault /\ last.outcome # "invalid",
                  retry |-> last.op = "DiseaseMappingSeed" /\ last.arg = f.name /\ last.fault # "none" /\ last.outcome = "error",
                  outcome |-> IF ~valid THEN "invalid" ELSE IF deleted THEN "ok" ELSE "error",
                  pre |-> Registry, preGenes |-> genes, n |-> last.n + 1]
      /\ UNCHANGED <<genes, edges, stats, cls, ref, rels>>

(***************************************************************************)
(* Deletion, Property-node registry (second script of                      *)
(* gene-universal-seed.js)                                                 *)
(***************************************************************************)
DEL_DISEASE_DEPENDENT_FIELDS == <<"OpenTargets", "DEG">>

DEL_DISEASE_INDEPENDENT_FIELDS == <<"Pathway", "Druggability", "TE", "OT_Prioritization">>

\* disease = DISEASE_INDEPENDENT_FIELDS.includes(type) ? undefined : all || disease === "all" ? "_" : disease?.toUpperCase()
DeletionDisease(type, disease, all) ==
  IF type \in Range(DEL_DISEASE_INDEPENDENT_FIELDS) THEN Undefined
  ELSE IF all \/ disease = "all" THEN "_"
  ELSE IF disease = Undefined THEN Undefined
  ELSE ToUpper(disease)

\* column = `${disease ?? ""}${type}_`
DeletionColumn(type, disease) == (IF disease = Undefined THEN "" ELSE disease) \o type \o "_"

\* MATCH (p:Property) WHERE p.name CONTAINS $column OR p.name IN $header
SelectedProperties(ns, column, header) ==
  {p \in ns : "Property" \in p.labels /\ (Contains(p.name, column) \/ p.name \in Range(header))}

\* apoc.periodic.iterate('MATCH (g:Gene) RETURN g', 'CALL apoc.create.removeProperties(g, $properties) ...')
StripGenes(gs, keys) == [g \in DOMAIN gs |-> RemoveProperties(gs[g], keys)]

\* MATCH (d:Disease&!Property) WHERE NOT (d)-[:HAS_PROPERTY]->() DELETE d
PruneDiseases(ns, es) ==
  ns \ {d \in ns : "Disease" \in d.labels /\ "Property" \notin d.labels
                    /\ ~\E e \in es : e[1] = d.id}

\* The session.run calls of the deletion in order; a fault names the call that throws
DeletionFaults == {"none", "query", "delete", "prune"}

\* a throw of the strip query is swallowed and the later statements run
DeletionCompletedIgnoringStrip(fault) ==
  CASE fault = "delete" -> 1 [] fault = "prune" -> 2 [] OTHER -> 3

DeletionCompleted(fault) ==
  CASE fault = "query" -> 0 [] fault = "delete" -> 1 [] fault = "prune" -> 2 [] OTHER -> 3

\* The deletion with its queries in the other order: deleteQuery and the prune before the strip
PropertyDeletionRegistryFirst(sel, fault) ==
  LET disease == DeletionDisease(sel.type, sel.disease, sel.all)
      column == DeletionColumn(sel.type, disease)
      dead == SelectedProperties(nodes, column, sel.header)
      done == DeletionCompleted(fault)
      db1 == DetachDelete([nodes |-> nodes, edges |-> edges], dead)
  IN  /\ genes' = IF done >= 3 THEN StripGenes(genes, {p.name : p \in dead}) ELSE genes
      /\ nodes' = IF done >= 2 THEN PruneDiseases(db1.nodes, db1.edges)
                  ELSE IF done >= 1 THEN db1.nodes ELSE nodes
      /\ edges' = IF done >= 1 THEN db1.edges ELSE edges
      /\ last' = [op |-> "PropertyDeletion", arg |-> sel.name, fault |-> fault,
                  again |-> FALSE, retry |-> FALSE,
                  outcome |-> IF done = 3 THEN "ok" ELSE "error",
                  pre |-> Registry, preGenes |-> genes, n |-> last.n + 1]
      /\ UNCHANGED <<stats, cls, ref, rels>>

\* One run of the Property-node deletion with selector sel
PropertyDeletion(sel, fault) ==
  LET disease == DeletionDisease(sel.type, sel.disease, sel.all)
      column == DeletionColumn(sel.type, disease)
      dead == SelectedProperties(nodes, column, sel.header)
      done == DeletionCompleted(fault)
      db1 == DetachDelete([nodes |-> nodes, edges |-> edges], dead)
  IN  /\ genes' = IF done >= 1 THEN StripGenes(genes, {p.name : p \in dead}) ELSE genes
      /\ nodes' = IF done >= 3 THEN PruneDiseases(db1.nodes, db1.edges)
                  ELSE IF done >= 2 THEN db1.nodes ELSE nodes
      /\ edges' = IF done >= 2 THEN db1.edges ELSE edges
      /\ last' = [op |-> "PropertyDeletion", arg |-> sel.name, fault |-> fault,
                  again |-> last.op = "PropertyDeletion" /\ last.arg = sel.name /\ last.fault = fault /\ last.outcome # "invalid",
                  retry |-> last.op = "PropertyDeletion" /\ last.arg = sel.name /\ last.fault # "none" /\ last.outcome = "error",
                  outcome |-> IF done = 3 THEN "ok" ELSE "error",
                  pre |-> Registry, preGenes |-> genes, n |-> last.n + 1]
      /\ UNCHANGED <<stats, cls, ref, rels>>

(***************************************************************************)
(* Deletion, Stats-node registry (gene-universal-deletion.js)              *)
(***************************************************************************)
\* disease = DISEASE_INDEPENDENT_FIELDS.includes(type) ? undefined : disease.toUpperCase()
StatsDisease(type, disease) ==
  IF type \in Range(DEL_DISEASE_INDEPENDENT_FIELDS) THEN Undefined ELSE ToUpper(disease)

\* column = `${disease ? `${disease}_` : ''}${type}_`
StatsColumn(type, disease) == (IF Truthy(disease) THEN disease \o "_" ELSE "") \o type \o "_"

\* s.${disease || 'common'}
StatsScope(disease) == IF Truthy(disease) THEN disease ELSE "common"

\* the query has a row only when the Stats node exists, and a key list only when the scope's list exists
StatsHasScope(st, scope) == st # <<>> /\ scope \in DOMAIN st[1]

\* [k IN s.scope WHERE k STARTS WITH column]
StatsKeys(st, scope, column) == SelectSeq(st[1][scope], LAMBDA k : StartsWith(k, column))

\* SET s.scope = [k IN s.scope WHERE NOT k STARTS WITH column AND NOT k IN $header]
StatsRemove(st, scope, column, header) ==
  <<[st[1] EXCEPT ![scope] =
       SelectSeq(st[1][scope], LAMBDA k : ~StartsWith(k, column) /\ k \notin Range(header))]>>

StatsFaults == {"none", "query", "delete"}

\* One run of the Stats-node deletion with selector sel
StatsDeletion(sel, fault) ==
  LET disease == StatsDisease(sel.type, sel.disease)
      column == StatsColumn(sel.type, disease)
      scope == StatsScope(disease)
      header == FilterBoolean(sel.header)
      \* without a row, or with null keys, result.records[0].get("keys").map throws before deleteQuery
      stripped == fault # "query" /\ StatsHasScope(stats, scope)
      removed == stripped /\ fault = "none"
  IN  /\ sel.disease # Undefined \/ sel.type \in Range(DEL_DISEASE_INDEPENDENT_FIELDS)
      /\ genes' = IF stripped
                  THEN StripGenes(genes, Range(StatsKeys(stats, scope, column)) \cup Range(header))
                  ELSE genes
      /\ stats' = IF removed THEN StatsRemove(stats, scope, column, sel.header) ELSE stats
      /\ last' = [op |-> "StatsDeletion", arg |-> sel.name, fault |-> fault,
                  again |-> last.op = "StatsDeletion" /\ last.arg = sel.name /\ last.fault = fault /\ last.outcome # "invalid",
                  retry |-> last.op = "StatsDeletion" /\ last.arg = sel.name /\ last.fault # "none" /\ last.outcome = "error",
                  outcome |-> IF removed THEN "ok" ELSE "error",
                  pre |-> Registry, preGenes |-> genes, n |-> last.n + 1]
      /\ UNCHANGED <<nodes, edges, cls, ref, rels>>

(***************************************************************************)
(* The earlier seed, Stats-node registry (gsea/Dockerfile, second part)    *)
(***************************************************************************)
\* apoc.coll.toSet: the list without its repeated elements, first occurrences kept
RECURSIVE ToSet(_)
ToSet(seq) ==
  IF seq = <<>> THEN <<>>
  ELSE LET front == ToSet(SubSeq(seq, 1, Len(seq) - 1))
       IN  IF seq[Len(seq)] \in Range(front) THEN front ELSE Append(front, seq[Len(seq)])

\* COALESCE(s.key, [])
StatsList(st, key) == IF st # <<>> /\ key \in DOMAIN st[1] THEN st[1][key] ELSE <<>>

\* MERGE (s:Stats { version: 1 }) SET s.disease = ..., s.common = ..., s.<disease> = ...
StatsMerge(st, disease, headers) ==
  LET old == IF st = <<>> THEN <<>> ELSE st[1]
      own == SelectSeq(headers, LAMBDA h : StartsWith(h, disease \o "_"))
      rest == SelectSeq(headers, LAMBDA h : ~StartsWith(h, disease \o "_"))
      new == IF Truthy(disease)
             THEN [k \in {"disease", "common", disease} |->
                     IF k = "disease"
                     THEN IF disease \in Range(StatsList(st, "disease"))
                          THEN StatsList(st, "disease")
                          ELSE Append(StatsList(st, "disease"), disease)
                     ELSE IF k = "common" THEN ToSet(StatsList(st, "common") \o rest)
                     ELSE ToSet(StatsList(st, disease) \o own)]
             ELSE [k \in {"common"} |-> ToSet(StatsList(st, "common") \o headers)]
  IN  <<[k \in DOMAIN old \cup DOMAIN new |-> IF k \in DOMAIN new THEN new[k] ELSE old[k]]>>

\* The session.run calls of the earlier seed in order; a fault names the call that throws
LegacyFaults == {"none", "query", "stats"}

\* One run of the earlier seed: p holds the disease given, the headers its classification kept and
\* the rows as the seed query sees them
LegacySeed(p, fault) ==
  /\ \E rows \in (IF fault # "query" THEN Schedules(p.rows) ELSE PartialSchedules(p.rows)) :
       genes' = SeedRows(genes, rows)
  /\ stats' = IF fault = "none" THEN StatsMerge(stats, p.disease, p.headers) ELSE stats
  /\ last' = [op |-> "LegacySeed", arg |-> p.name, fault |-> fault,
              again |-> last.op = "LegacySeed" /\ last.arg = p.name /\ last.fault = fault,
              retry |-> last.op = "LegacySeed" /\ last.arg = p.name /\ last.fault # "none" /\ last.outcome = "error",
              outcome |-> IF fault = "none" THEN "ok" ELSE "error",
              pre |-> Registry, preGenes |-> genes, n |-> last.n + 1]
  /\ UNCHANGED <<nodes, edges, cls, ref, rels>>

(***************************************************************************)
(* The reference genome update (unnamed/part_010)                          *)
(***************************************************************************)
\* the step callback of Papa.parse: the ID a parsed row adds to geneIDs, Undefined for none
StepGeneID(row) ==
  IF Truthy(row.suppliedID) THEN row.suppliedID
  ELSE IF Truthy(row.geneID) THEN row.geneID ELSE Undefined

\* split(cell, ","), null for a null cell
RECURSIVE SplitComma(_)
SplitComma(s) ==
  LET hits == {i \in 1..Len(s) : CharAt(s, i) = ","}
  IN  IF hits = {} THEN <<s>>
      ELSE LET i == CHOOSE h \in hits : \A j \in hits : h <= j
           IN  <<SubSeq(s, 1, i - 1)>> \o SplitComma(Slice(s, i))

\* trim(alias)
RECURSIVE TrimSpaces(_)
TrimSpaces(s) ==
  IF Len(s) > 0 /\ CharAt(s, 1) = " " THEN TrimSpaces(Slice(s, 1))
  ELSE IF Len(s) > 0 /\ CharAt(s, Len(s)) = " " THEN TrimSpaces(SubSeq(s, 1, Len(s) - 1))
  ELSE s

\* [alias IN split(line.`Alias symbols`, ",") | toUpper(trim(alias))]
RowAliases(row) ==
  IF row.aliases = "" THEN <<>>
  ELSE [i \in DOMAIN SplitComma(row.aliases) |-> ToUpper(TrimSpaces(SplitComma(row.aliases)[i]))]

\* COALESCE(line.`Ensembl ID(supplied by Ensembl)`, line.`Ensembl gene ID`), null when both are empty
LoadGeneID(row) ==
  IF row.suppliedID # "" THEN row.suppliedID ELSE IF row.geneID # "" THEN row.geneID ELSE Null

\* SET g += { Gene_name, Description, hgnc_gene_id, Aliases }
ReferenceSets(row) ==
  << <<"Gene_name", IF row.symbol = "" THEN NullValue ELSE StringValue(ToUpper(row.symbol))>>,
     <<"Description", CsvCell(row.name)>>,
     <<"hgnc_gene_id", CsvCell(row.hgnc)>>,
     <<"Aliases", IF row.aliases = "" THEN NullValue ELSE [type |-> "list", v |-> RowAliases(row)]>> >>

\* LOAD CSV ... WHERE an ID is given: MERGE (g:Gene { ID }) SET g += { ... }
RECURSIVE LoadReferenceGenes(_, _)
LoadReferenceGenes(gs, rows) ==
  IF rows = <<>> THEN gs
  ELSE LET id == LoadGeneID(Head(rows))
       IN  IF id = Null THEN LoadReferenceGenes(gs, Tail(rows))
           ELSE LoadReferenceGenes(
                  [g \in DOMAIN gs \cup {id} |->
                     IF g = id
                     THEN SetAll(IF g \in DOMAIN gs THEN gs[g] ELSE <<>>, ReferenceSets(Head(rows)))
                     ELSE gs[g]],
                  Tail(rows))

\* UNWIND aliases AS alias MERGE (ga:GeneAlias { Gene_name: alias }) MERGE (ga)-[:ALIAS_OF]->(g)
LoadAliasOf(rows) ==
  UNION {{<<a, LoadGeneID(rows[r])>> : a \in Range(RowAliases(rows[r]))} :
           r \in {i \in DOMAIN rows : LoadGeneID(rows[i]) # Null}}

\* a run starts (an earlier run has ended, its stream read to the end): Papa.parse is called on
\* the stream and returns at once, nothing is parsed yet
RefStart(f) ==
  /\ ref.pc \in {"none", "done"}
  /\ ref.parsed = ref.rows
  /\ ref.runs < MaxOps
  /\ ExtName(f.name) = ".csv"
  /\ ref' = [ref EXCEPT !.file = f.name, !.rows = Len(f.rows), !.parsed = 0, !.geneIDs = {},
                        !.diffGenes = {}, !.runs = ref.runs + 1, !.pc = "started"]
  /\ UNCHANGED <<genes, nodes, edges, stats, last, cls, rels>>

\* the stream delivers the next row to the step callback, at any moment of the run
RefParseStep(f) ==
  /\ ref.pc # "none" /\ ref.file = f.name
  /\ ref.parsed < Len(f.rows)
  /\ ref' = [ref EXCEPT !.parsed = ref.parsed + 1,
                        !.geneIDs = ref.geneIDs \cup ({StepGeneID(f.rows[ref.parsed + 1])} \ {Undefined})]
  /\ UNCHANGED <<genes, nodes, edges, stats, last, cls, rels>>

\* await session.run("MATCH (g:Gene) RETURN g.ID AS ID"); diffGenes = res.filter((id) => !geneIDs.has(id))
RefDiffGenes(f) ==
  /\ ref.pc = "started" /\ ref.file = f.name
  /\ ref' = [ref EXCEPT !.diffGenes = DOMAIN genes \ ref.geneIDs, !.pc = "diffed"]
  /\ UNCHANGED <<genes, nodes, edges, stats, last, cls, rels>>

\* await session.run(query): the LOAD CSV statement has loaded the file
RefLoad(f) ==
  /\ ref.pc = "diffed" /\ ref.file = f.name
  /\ genes' = LoadReferenceGenes(genes, f.rows)
  /\ ref' = [ref EXCEPT !.geneAlias = ref.geneAlias \cup {p[1] : p \in LoadAliasOf(f.rows)},
                        !.aliasOf = ref.aliasOf \cup LoadAliasOf(f.rows),
                        !.pc = "loaded"]
  /\ UNCHANGED <<nodes, edges, stats, last, cls, rels>>

\* await session.run(deleteQuery, { geneIDs: diffGenes }): MATCH (g:Gene) WHERE g.ID IN $geneIDs DETACH DELETE g
RefDelete(f) ==
  /\ ref.pc = "loaded" /\ ref.file = f.name
  /\ genes' = [g \in DOMAIN genes \ ref.diffGenes |-> genes[g]]
  /\ ref' = [ref EXCEPT !.aliasOf = {p \in ref.aliasOf : p[2] \notin ref.diffGenes},
                        !.pc = "done"]
  /\ UNCHANGED <<nodes, edges, stats, last, cls, rels>>

(***************************************************************************)
(* Input files and selectors of the runs                                   *)
(***************************************************************************)
FileCommon ==
  [name |-> "data/TE_common.csv", exists |-> TRUE, flagDisease |-> Undefined, di |-> TRUE,
   idType |-> "ENSEMBL-ID",
   answer |-> "", forced |-> <<>>,
   header |-> <<"Gene ID", "TE_tissueA", "Druggability_Score_a", "Pathway_SITE_x", "Unknown",
                "LogFC_y">>,
   rows |-> << <<"G1", "0.6", "1", "0.3", "z", "1">>,
               <<"G9", "0.3", "1", "1", "z", "1">>,
               <<"G2", "", "0.3", "abc", "z", "0.3">> >>]

FileALS ==
  [name |-> "data/ALS_logFC.csv", exists |-> TRUE, flagDisease |-> "MONDO_1", di |-> FALSE,
   idType |-> "ENSEMBL-ID",
   answer |-> "",
   forced |-> <<"ALS_TE_tissueA", "ALSX_TE_tissueA", "BALS_TE_tissueA", "ALS_Druggability_a">>,
   header |-> <<"ID", "GWAS_p-value", "ALS_TE_tissueA", "ALSX_TE_tissueA", "BALS_TE_tissueA",
                "ALS_Druggability_a">>,
   rows |-> << <<"G1", "0.6", "1", "1", "1", "0.3">>,
               <<"G2", "0.3", "", "1", "1", "1">> >>]

FilePSP ==
  [name |-> "data/PSP_scores.csv", exists |-> TRUE, flagDisease |-> Undefined, di |-> FALSE,
   idType |-> "ENSEMBL-ID",
   answer |-> "", forced |-> <<"OpenTargets_x">>,
   header |-> <<"ID", "LogFC_x", "\"Gene name\"", "OpenTargets_x">>,
   rows |-> << <<"G1", "0.3", "STX6", "0.6">>,
               <<"G2", "1", "RGS8", "0.3">>,
               <<"G9", "1", "", "1">>,
               <<"G1", "0.6", "STX6", "">> >>]

FileFTD ==
  [name |-> "data/FTD_TE.csv", exists |-> TRUE, flagDisease |-> Undefined, di |-> FALSE,
   idType |-> "ENSEMBL-ID",
   answer |-> "", forced |-> <<>>,
   header |-> <<"ID", "te_tissueA", "TE_tissueA">>,
   rows |-> << <<"G2", "0.60", "1">> >>]

FilePrompt ==
  [name |-> "data/plain.csv", exists |-> TRUE, flagDisease |-> Undefined, di |-> FALSE,
   idType |-> "ENSEMBL-ID",
   answer |-> "alsx", forced |-> <<>>,
   header |-> <<"ID", "TE_tissueA", "DEG_y">>,
   rows |-> << <<"G1", "1", "1">> >>]

\* Files the seed rejects: a wrong extension, a missing file, a header row of one column, and a
\* header row of which no header is classified
FileTxt ==
  [name |-> "data/TE_common.txt", exists |-> TRUE, flagDisease |-> Undefined, di |-> TRUE,
   idType |-> "ENSEMBL-ID",
   answer |-> "", forced |-> <<>>,
   header |-> <<"Gene ID", "TE_tissueA">>,
   rows |-> << <<"G1", "0.3">> >>]

FileMissing ==
  [name |-> "data/missing.csv", exists |-> FALSE, flagDisease |-> Undefined, di |-> TRUE,
   idType |-> "ENSEMBL-ID",
   answer |-> "", forced |-> <<>>, header |-> <<>>, rows |-> <<>>]

FileOneColumn ==
  [name |-> "data/one_column.csv", exists |-> TRUE, flagDisease |-> Undefined, di |-> TRUE,
   idType |-> "ENSEMBL-ID",
   answer |-> "", forced |-> <<>>,
   header |-> <<"ID">>,
   rows |-> << <<"G1">> >>]

FileUnclassified ==
  [name |-> "data/unclassified.csv", exists |-> TRUE, flagDisease |-> Undefined, di |-> TRUE,
   idType |-> "ENSEMBL-ID",
   answer |-> "", forced |-> <<>>,
   header |-> <<"ID", "Unknown", "GWAS_x">>,
   rows |-> << <<"G1", "0.3", "0.6">> >>]

\* A file keyed by gene symbol, given with -t HGNC-Symbol
FileSymbols ==
  [name |-> "data/TE_symbols.csv", exists |-> TRUE, flagDisease |-> Undefined, di |-> TRUE,
   idType |-> "HGNC-Symbol",
   answer |-> "", forced |-> <<>>,
   header |-> <<"Gene", "TE_tissueA">>,
   rows |-> << <<"stx6", "0.6">>, <<"RGS8", "0.3">> >>]

DenseFiles == {FileCommon, FileALS, FilePSP, FileFTD, FilePrompt, FileSymbols,
               FileTxt, FileMissing, FileOneColumn, FileUnclassified}

\* The plan of every dense file
SeedPlans == [f \in DenseFiles |-> SeedPlan(f)]

SparseFile ==
  [name |-> "data/ot_association.csv", exists |-> TRUE,
   rows |-> << <<"G1", "EFO_0000095_OpenTargets_score", "0.6">>,
               <<"G2", "EFO_0000095_OpenTargets_score", "0.3">>,
               <<"G9", "MONDO_1_OpenTargets_score", "1">>,
               <<"G1", "MONDO_1_OpenTargets_score", "0.3">> >>]

SparseFileOne ==
  [name |-> "data/ot_one.csv", exists |-> TRUE,
   rows |-> << <<"G1", "EFO_0000095_OpenTargets_score", "0.60">> >>]

SparseFiles == {SparseFile, SparseFileOne}

\* The plan of every sparse file
SparsePlans == [f \in SparseFiles |-> SparsePlan(f)]

DescriptionFiles ==
  {[name |-> "data/property_description.csv",
    rows |-> << <<"TE_tissueA", "Tissue A">>, <<"ALS_OpenTargets_p-value", "GWAS p-value">> >>]}

DiseaseMappingFiles ==
  {[name |-> "data/disease_mapping.csv",
    rows |-> << <<"ALS", "amyotrophic lateral sclerosis">> >>]}

PropertySelectors ==
  {[name |-> "TE for ALS", type |-> "TE", disease |-> "ALS", all |-> FALSE, header |-> <<>>],
   [name |-> "Druggability common", type |-> "Druggability", disease |-> "", all |-> FALSE,
    header |-> <<>>],
   [name |-> "OpenTargets for ALS", type |-> "OpenTargets", disease |-> "als", all |-> FALSE,
    header |-> <<>>],
   [name |-> "OpenTargets all", type |-> "OpenTargets", disease |-> Undefined, all |-> TRUE,
    header |-> <<>>],
   [name |-> "DEG all", type |-> "DEG", disease |-> "all", all |-> FALSE, header |-> <<>>],
   [name |-> "names of FileALS", type |-> "Custom", disease |-> "", all |-> FALSE,
    header |-> <<"ALS_OpenTargets_p-value", "ALS_TE_tissueA", "ALSX_TE_tissueA", "BALS_TE_tissueA",
                 "ALS_Druggability_a">>],
   [name |-> "names of FilePrompt", type |-> "Custom", disease |-> "", all |-> FALSE,
    header |-> <<"TE_tissueA", "ALSX_DEG_y">>]}

StatsSelectors ==
  {[name |-> "TE for ALS", type |-> "TE", disease |-> "ALS", header |-> <<>>],
   [name |-> "Druggability common", type |-> "Druggability", disease |-> "", header |-> <<>>],
   [name |-> "DEG for ALS", type |-> "DEG", disease |-> "als", header |-> <<"">>],
   [name |-> "Custom", type |-> "Custom", disease |-> "", header |-> <<"BALS_TE_tissueA">>]}

(***************************************************************************)
(* The database before the first run                                       *)
(***************************************************************************)
\* Genes of the reference genome
InitGenes ==
  [g \in {"G1", "G2"} |-> [k \in {"Gene_name"} |-> StringValue(IF g = "G1" THEN "STX6" ELSE "RGS8")]]

NoRun ==
  [op |-> "none", arg |-> "", fault |-> "none", again |-> FALSE, retry |-> FALSE,
   outcome |-> "none",
   pre |-> [nodes |-> {}, edges |-> {}], preGenes |-> InitGenes, n |-> 0]

\* no reference genome update under way
NoRef ==
  [file |-> "", rows |-> 0, parsed |-> 0, geneIDs |-> {}, diffGenes |-> {}, geneAlias |-> {},
   aliasOf |-> {}, runs |-> 0, pc |-> "none"]

NoCls ==
  [file |-> "", flagDisease |-> Undefined, di |-> FALSE, answer |-> "", forced |-> <<>>,
   raw |-> "", disease |-> Undefined, result |-> Undefined, pc |-> "off"]

Init ==
  /\ genes = InitGenes
  /\ stats = <<>>
  /\ nodes = {}
  /\ edges = {}
  /\ last = NoRun
  /\ cls = NoCls
  /\ ref = NoRef
  /\ rels = {}

\* Runs of the earlier seed: a file of disease ALS with one disease-dependent and one common
\* column, and a file given without disease
LegacyPlans ==
  {[name |-> "data/ALS_deg.csv", disease |-> "ALS", headers |-> <<"ALS_DEG_x", "TE_tissueA">>,
    rows |-> << [id |-> StringValue("G1"),
                 sets |-> << <<"ALS_DEG_x", StringValue("0.6")>>, <<"TE_tissueA", StringValue("1")>> >>],
                [id |-> StringValue("G2"),
                 sets |-> << <<"ALS_DEG_x", StringValue("0.3")>>, <<"TE_tissueA", StringValue("1")>> >>] >>],
   [name |-> "data/druggability.csv", disease |-> "", headers |-> <<"Druggability_Score_a">>,
    rows |-> << [id |-> StringValue("G1"),
                 sets |-> << <<"Druggability_Score_a", StringValue("0.3")>> >>] >>]}

\* One invocation of each script, on any of the input files or selectors, with any of its faults
RunUniversalSeed ==
  /\ last.n < MaxOps
  /\ \E f \in DenseFiles :
       \* a rejected file ends the run before the first session.run: no call is left to throw
       \E fault \in (IF SeedPlans[f].valid THEN SeedFaults ELSE {"none"}) :
         UniversalSeed(f.name, SeedPlans[f], fault)

RunSparseSeed ==
  /\ last.n < MaxOps
  /\ \E f \in SparseFiles, fault \in SparseFaults : SparseSeed(f.name, SparsePlans[f], fault)

RunPropertyDescriptionUpdate ==
  /\ last.n < MaxOps
  /\ \E f \in DescriptionFiles, fault \in {"none", "query"} : PropertyDescriptionUpdate(f, fault)

RunDiseaseMappingSeed ==
  /\ last.n < MaxOps
  /\ \E f \in DiseaseMappingFiles, fault \in {"none", "query", "delete"} : DiseaseMappingSeed(f, fault)

RunPropertyDeletion ==
  /\ last.n < MaxOps
  /\ \E sel \in PropertySelectors, fault \in DeletionFaults : PropertyDeletion(sel, fault)

RunStatsDeletion ==
  /\ last.n < MaxOps
  /\ \E sel \in StatsSelectors, fault \in StatsFaults : StatsDeletion(sel, fault)

Next ==
  \/ RunUniversalSeed
  \/ RunSparseSeed
  \/ RunPropertyDescriptionUpdate
  \/ RunDiseaseMappingSeed
  \/ RunPropertyDeletion
  \/ RunStatsDeletion

Spec == Init /\ [][Next]_vars

\* Reference files: rows of Ensembl gene ID, Ensembl ID(supplied by Ensembl), Approved symbol,
\* Approved name, HGNC ID and Alias symbols
ReferenceFiles ==
  {[name |-> "data/hgnc_all.csv",
    rows |-> << [geneID |-> "G1", suppliedID |-> "", symbol |-> "stx6", name |-> "syntaxin 6",
                 hgnc |-> "HGNC:11441", aliases |-> ""],
                [geneID |-> "G2x", suppliedID |-> "G2", symbol |-> "RGS8", name |-> "regulator 8",
                 hgnc |-> "HGNC:16810", aliases |-> "mgc1, Rgs-8"],
                [geneID |-> "", suppliedID |-> "G3", symbol |-> "TP53", name |-> "",
                 hgnc |-> "HGNC:11998", aliases |-> "p53"] >>],
   [name |-> "data/hgnc_without_G1.csv",
    rows |-> << [geneID |-> "G2", suppliedID |-> "", symbol |-> "RGS8", name |-> "regulator 8",
                 hgnc |-> "HGNC:16810", aliases |-> "mgc1"],
                [geneID |-> "", suppliedID |-> "", symbol |-> "ORPHAN", name |-> "", hgnc |-> "",
                 aliases |-> ""] >>],
   [name |-> "data/hgnc_new.csv",
    rows |-> << [geneID |-> "G3", suppliedID |-> "", symbol |-> "TP53", name |-> "tumor protein",
                 hgnc |-> "HGNC:11998", aliases |-> "p53, LFS1"],
                [geneID |-> "G4", suppliedID |-> "", symbol |-> "Egfr", name |-> "", hgnc |-> "",
                 aliases |-> ""] >>]}

\* One run of the reference genome update: its statements in order, and the rows of the file
\* arriving from the stream between them
RunRefStart == \E f \in ReferenceFiles : RefStart(f)

RunRefParseStep == \E f \in ReferenceFiles : RefParseStep(f)

RunRefDiffGenes == \E f \in ReferenceFiles : RefDiffGenes(f)

RunRefLoad == \E f \in ReferenceFiles : RefLoad(f)

RunRefDelete == \E f \in ReferenceFiles : RefDelete(f)

NextReference ==
  \/ RunRefStart
  \/ RunRefParseStep
  \/ RunRefDiffGenes
  \/ RunRefLoad
  \/ RunRefDelete

SpecReference == Init /\ [][NextReference]_vars

\* A database seeded by the earlier seed, and the Stats-node deletion on it
RunLegacySeed ==
  /\ last.n < MaxOps
  /\ \E p \in LegacyPlans, fault \in LegacyFaults : LegacySeed(p, fault)

NextLegacy ==
  \/ RunLegacySeed
  \/ RunStatsDeletion

SpecLegacy == Init /\ [][NextLegacy]_vars

(***************************************************************************)
(* The interaction seeds (unnamed/part_001, and the older unnamed/part_000)*)
(***************************************************************************)
\* const ID_TYPE = ["ENSEMBL-ID", "HGNC-Symbol"]
ID_TYPE == <<"ENSEMBL-ID", "HGNC-Symbol">>

\* MATCH (g:Gene { ID | Gene_name: toUpper(cell) }): the genes one cell of a line names; a null
\* cell matches none
MatchGene(gs, idType, cell) ==
  IF cell = "" THEN {}
  ELSE IF idType = ID_TYPE[1]
       THEN {g \in DOMAIN gs : g = ToUpper(cell)}
       ELSE {g \in DOMAIN gs :
               "Gene_name" \in DOMAIN gs[g] /\ gs[g]["Gene_name"] = StringValue(ToUpper(cell))}

\* MERGE (g1)-[r:TYPE]->(g2) that sets the score on a match too
MergeRelOverwriting(rs, type, a, b, cell) ==
  {r \in rs : ~(r.type = type /\ r.from = a /\ r.to = b)}
    \cup {[type |-> type, from |-> a, to |-> b, score |-> ToFloat(cell)]}

\* MERGE (g1)-[r:TYPE]->(g2) ON CREATE SET r.score = toFloat(line[2])
MergeRel(rs, type, a, b, cell) ==
  IF \E r \in rs : r.type = type /\ r.from = a /\ r.to = b
  THEN rs
  ELSE rs \cup {[type |-> type, from |-> a, to |-> b, score |-> ToFloat(cell)]}

\* MERGE of one line for every pair its two MATCHes give
RECURSIVE MergePairs(_, _, _, _)
MergePairs(rs, type, pairs, cell) ==
  IF pairs = {} THEN rs
  ELSE LET p == CHOOSE q \in pairs : TRUE
       IN  MergePairs(MergeRel(rs, type, p[1], p[2], cell), type, pairs \ {p}, cell)

\* the lines of the file in order, through the query of the newer seed
RECURSIVE InteractionRows(_, _, _, _, _)
InteractionRows(gs, rs, rows, type, idType) ==
  IF rows = <<>> THEN rs
  ELSE InteractionRows(gs,
         MergePairs(rs, type,
                    MatchGene(gs, idType, Head(rows)[1]) \X MatchGene(gs, idType, Head(rows)[2]),
                    Head(rows)[3]),
         Tail(rows), type, idType)

\* MERGE (g:Gene { ID: cell }) of the older seed: the gene is created without properties when
\* no gene has the ID
MergeGene(gs, cell) ==
  IF cell \in DOMAIN gs THEN gs
  ELSE [g \in DOMAIN gs \cup {cell} |-> IF g = cell THEN <<>> ELSE gs[g]]

\* the lines of the file in order, through the query of the older seed
RECURSIVE OlderInteractionRows(_, _, _)
OlderInteractionRows(db, rows, type) ==
  IF rows = <<>> THEN db
  ELSE OlderInteractionRows(
         [genes |-> MergeGene(MergeGene(db.genes, Head(rows)[1]), Head(rows)[2]),
          rels |-> MergeRel(db.rels, type, Head(rows)[1], Head(rows)[2], Head(rows)[3])],
         Tail(rows), type)

\* MERGE on a null ID is an error: the first line of the file with an empty gene cell, 0 for none
FirstNullLine(rows) ==
  IF \E i \in DOMAIN rows : rows[i][1] = "" \/ rows[i][2] = ""
  THEN CHOOSE i \in DOMAIN rows :
         /\ rows[i][1] = "" \/ rows[i][2] = ""
         /\ \A j \in 1..(i - 1) : rows[j][1] # "" /\ rows[j][2] # ""
  ELSE 0

\* CALL { ... } IN TRANSACTIONS: the batches commit in file order, and the batches committed
\* before the one that fails stay; the lines of the first k batches
CommittedRows(rows, k) ==
  SubSeq(rows, 1, IF k * BatchRows < Len(rows) THEN k * BatchRows ELSE Len(rows))

\* The call of session.run that throws
InteractionFaults == {"none", "query"}

\* One run of the newer interaction seed
InteractionSeed(f, type, idType, fault) ==
  /\ ExtName(f.name) = ".csv"
  /\ \E k \in (IF fault = "none" THEN {NumBatches(f.rows)} ELSE 0..(NumBatches(f.rows) - 1)) :
       rels' = InteractionRows(genes, rels, CommittedRows(f.rows, k), type, idType)
  /\ last' = [op |-> "InteractionSeed",
              arg |-> [file |-> f.name, type |-> type, idType |-> idType],
              fault |-> fault, again |-> FALSE, retry |-> FALSE,
              outcome |-> IF fault = "none" THEN "ok" ELSE "error",
              pre |-> Registry, preGenes |-> genes, n |-> last.n + 1]
  /\ UNCHANGED <<genes, nodes, edges, stats, cls, ref>>

\* One run of the older interaction seed
OlderInteractionSeed(f, type, fault) ==
  /\ ExtName(f.name) = ".csv"
  /\ LET bad == FirstNullLine(f.rows)
         full == IF bad = 0 THEN NumBatches(f.rows) ELSE (bad - 1) \div BatchRows
     IN  /\ \E k \in (IF fault = "none" THEN {full} ELSE 0..(NumBatches(f.rows) - 1)) :
               LET db == OlderInteractionRows([genes |-> genes, rels |-> rels],
                                              CommittedRows(f.rows, IF k < full THEN k ELSE full), type)
               IN  genes' = db.genes /\ rels' = db.rels
         /\ last' = [op |-> "OlderInteractionSeed",
                     arg |-> [file |-> f.name, type |-> type, idType |-> ID_TYPE[1]],
                     fault |-> fault, again |-> FALSE, retry |-> FALSE,
                     outcome |-> IF fault = "none" /\ bad = 0 THEN "ok" ELSE "error",
                     pre |-> Registry, preGenes |-> genes, n |-> last.n + 1]
  /\ UNCHANGED <<nodes, edges, stats, cls, ref>>

\* Interaction files: three cells a line and no header; a pair given twice with two scores, in
\* either letter case; a second file that scores the same pair again; a file keyed by symbols
\* with a line that lacks the second gene; a file that names a gene the database does not hold
InteractionFiles ==
  {[name |-> "data/ppi.csv",
    rows |-> << <<"g1", "G2", "0.6">>, <<"G1", "G2", "0.3">>, <<"G2", "G1", "1">> >>],
   [name |-> "data/ppi_rescored.csv",
    rows |-> << <<"G1", "G2", "0.3">>, <<"G2", "G3", "0.60">>, <<"G1", "G1", "high">> >>],
   [name |-> "data/ppi_symbols.csv",
    rows |-> << <<"stx6", "RGS8", "1">>, <<"RGS8", "", "0.3">>, <<"STX6", "RGS8", "0.6">> >>]}

InteractionTypes == {"PPI", "COEXP"}

RunInteractionSeed ==
  /\ last.n < MaxOps
  /\ \E f \in InteractionFiles, type \in InteractionTypes, idType \in Range(ID_TYPE),
        fault \in InteractionFaults :
       InteractionSeed(f, type, idType, fault)

RunOlderInteractionSeed ==
  /\ last.n < MaxOps
  /\ \E f \in InteractionFiles, type \in InteractionTypes, fault \in InteractionFaults :
       OlderInteractionSeed(f, type, fault)

NextInteraction ==
  \/ RunInteractionSeed
  \/ RunOlderInteractionSeed

SpecInteraction == Init /\ [][NextInteraction]_vars

(***************************************************************************)
(* Claims about the deletion runs, checked under Spec                      *)
(***************************************************************************)
\* the selector of a Property-node deletion run, by the name the run records
PropertySelectorNamed(name) == CHOOSE sel \in PropertySelectors : sel.name = name

\* a selector that names the `all` scope
IsAllScope(sel) == sel.all \/ sel.disease = "all"

\* the disease scope D of a selector: "common" without a disease, the upper-cased disease otherwise
SelectorScope(sel) == IF Truthy(sel.disease) THEN ToUpper(sel.disease) ELSE "common"

\* (D == common ? "" : D + "_") + C + "_"
SelectorPrefix(sel) ==
  (IF SelectorScope(sel) = "common" THEN "" ELSE SelectorScope(sel) \o "_") \o sel.type \o "_"

\* the canonical names the registry holds (names of Property nodes)
RegistryNames(ns) == {p.name : p \in {n \in ns : "Property" \in n.labels}}

\* the canonical names the registry holds for scope D: the Common&Property nodes for common,
\* the Property nodes the Disease node with ID D has a HAS_PROPERTY edge to otherwise
ScopeNames(ns, es, scope) ==
  IF scope = "common"
  THEN {p.name : p \in {n \in ns : {"Common", "Property"} \subseteq n.labels}}
  ELSE {p.name : p \in {n \in ns : /\ "Property" \in n.labels
                                   /\ \E d \in ns : /\ "Disease" \in d.labels
                                                    /\ "Property" \notin d.labels
                                                    /\ d.ID = scope
                                                    /\ <<d.id, n.id>> \in es}}

\* the property names some gene carries
GeneKeys(gs) == UNION {DOMAIN gs[g] : g \in DOMAIN gs}

\* C1: a deletion with selector (category C, disease scope D, explicit names E) removes from Gene
\* nodes and from the registry only names that start with (D == common ? "" : D + "_") + C + "_"
\* or are members of E; a name that merely contains the prefix stays.
C1_DeletionPrefixAnchored ==
  [][(/\ last'.op = "PropertyDeletion"
      /\ ~IsAllScope(PropertySelectorNamed(last'.arg)))
     => LET sel == PropertySelectorNamed(last'.arg)
            removed == {k \in GeneKeys(genes) : \E g \in DOMAIN genes :
                                                  k \in DOMAIN genes[g] /\ k \notin DOMAIN genes'[g]}
                         \cup (RegistryNames(nodes) \ RegistryNames(nodes'))
        IN  \A k \in removed : StartsWith(k, SelectorPrefix(sel)) \/ k \in Range(sel.header)]_vars

\* C2: when a deletion with selector (category C, disease scope D) is reported complete, every
\* name the registry held for scope D that starts with D_C_ (C_ for common) is absent from every
\* Gene node and from the registry.
C2_DeletionComplete ==
  [][(/\ last'.op = "PropertyDeletion"
      /\ last'.outcome = "ok"
      /\ ~IsAllScope(PropertySelectorNamed(last'.arg)))
     => LET sel == PropertySelectorNamed(last'.arg)
        IN  \A k \in ScopeNames(nodes, edges, SelectorScope(sel)) :
              StartsWith(k, SelectorPrefix(sel))
              => k \notin GeneKeys(genes') /\ k \notin RegistryNames(nodes')]_vars

(***************************************************************************)
(* Claims about the seed runs, checked under Spec                          *)
(***************************************************************************)
\* a run record of a seed whose seed query ran
SeedQueryRan(l) ==
  l.op \in {"UniversalSeed", "SparseSeed"} /\ l.outcome # "invalid" /\ l.fault # "query"

\* every (row, mapped property) of the rows: the identifier, the property and the value the row gives it
RowWrites(rows) ==
  UNION {{[at |-> <<r, i>>, id |-> rows[r].id, key |-> rows[r].sets[i][1],
           value |-> rows[r].sets[i][2]] : i \in DOMAIN rows[r].sets} : r \in DOMAIN rows}

\* no other row of the plan gives the same property of the same gene
SoleWrite(ws, w) == \A x \in ws : (x.id = w.id /\ x.key = w.key) => x.at = w.at

\* the batch a row of the file goes to
BatchOf(r) == (r - 1) \div BatchRows

\* no two rows that go to different batches give the same property of the same gene
ConflictFree(rows) ==
  \A w, x \in RowWrites(rows) :
    (w.id = x.id /\ w.key = x.key) => BatchOf(w.at[1]) = BatchOf(x.at[1])

\* of the rows of a plan, the (row, mapped property) pairs with an identifier that no other row
\* repeats for the same property, the identifiers the rows name, and whether the batches are
\* free of conflicts
PlanWrites(rows) ==
  [sole |-> {w \in RowWrites(rows) : w.id.type = "string" /\ SoleWrite(RowWrites(rows), w)},
   ids |-> {w.id : w \in RowWrites(rows)},
   conflictFree |-> ConflictFree(rows)]

DensePlanWrites == [n \in {f.name : f \in DenseFiles} |->
                      PlanWrites(SeedPlans[CHOOSE f \in DenseFiles : f.name = n].rows)]

SparsePlanWrites == [n \in {f.name : f \in SparseFiles} |->
                       PlanWrites(SparsePlans[CHOOSE f \in SparseFiles : f.name = n].rows)]

\* the same for the plan a seed run executed
RunWrites(l) == IF l.op = "UniversalSeed" THEN DensePlanWrites[l.arg] ELSE SparsePlanWrites[l.arg]

C4_SeedTwiceIdempotent ==
  [][(/\ last'.op \in {"UniversalSeed", "SparseSeed"}
      /\ last'.fault = "none"
      /\ last'.again)
     => genes' = genes /\ nodes' = nodes /\ edges' = edges]_vars

\* C4 amended: for a seed file in which no two rows of different batches give the same property
\* of the same gene, executing the same seed plan twice in succession leaves every Gene property
\* value as the first execution left it and adds no Gene, Disease or Property node and no
\* HAS_PROPERTY edge.
C4_ConflictFreeSeedTwiceIdempotent ==
  [][(/\ last'.op \in {"UniversalSeed", "SparseSeed"}
      /\ last'.fault = "none"
      /\ last'.again
      /\ RunWrites(last').conflictFree)
     => genes' = genes /\ nodes' = nodes /\ edges' = edges]_vars

\* C4 witness: the seed of FileALS has completed twice in succession on a registry that holds
\* its Disease entry, its properties and their edges
C4_Witness ==
  /\ last.op = "UniversalSeed" /\ last.arg = FileALS.name /\ last.fault = "none"
  /\ last.again /\ last.outcome = "ok"
  /\ DensePlanWrites[FileALS.name].conflictFree
  /\ "ALS_OpenTargets_p-value" \in ScopeNames(nodes, edges, "ALS")
  /\ "ALS_OpenTargets_p-value" \in DOMAIN genes["G1"]

(***************************************************************************)
(* Claims about the registry, checked under Spec                           *)
(***************************************************************************)
\* C5: registering names is an idempotent union: in every state reached by seed, description
\* update and deletion runs the registry holds one entry per canonical name of a scope (no two
\* Property nodes of the same labels carry the same name).
C5_OneEntryPerName ==
  \A p, q \in nodes :
    ("Property" \in p.labels /\ p.labels = q.labels /\ p.name = q.name) => p = q

\* the canonical names a dense seed run registers
SeededNames(l) == Range(SeedPlans[CHOOSE f \in DenseFiles : f.name = l.arg].headers)

\* C6: adding a set S of names to the registry (a completed seed that registers S, none of them
\* registered before) and then removing exactly S (a completed deletion by the explicit names S)
\* returns the registry, its property entries, disease entries and HAS_PROPERTY edges, to the state
\* it had before the add.
C6_AddRemoveRoundTrip ==
  [][(/\ last.op = "UniversalSeed" /\ last.outcome = "ok"
      /\ last'.op = "PropertyDeletion" /\ last'.outcome = "ok"
      /\ PropertySelectorNamed(last'.arg).type = "Custom"
      /\ Range(PropertySelectorNamed(last'.arg).header) = SeededNames(last)
      /\ SeededNames(last) \cap RegistryNames(last.pre.nodes) = {})
     => [nodes |-> nodes', edges |-> edges'] = last.pre]_vars

\* C7: after the sparse seed of a header-less triple file has run, for every row (g, p, v) of the
\* file, its first row included, whose g is an existing gene, gene g carries property p with the
\* float value of v, and the registry scope named by the disease prefix of p contains p.
C7_SparseRowSeeded ==
  (last.op = "SparseSeed" /\ last.fault = "none" /\ last.outcome # "invalid")
  => LET f == CHOOSE x \in SparseFiles : x.name = last.arg
     IN  \A r \in DOMAIN f.rows :
           f.rows[r][1] \in DOMAIN genes
           => /\ f.rows[r][2] \in DOMAIN genes[f.rows[r][1]]
              /\ genes[f.rows[r][1]][f.rows[r][2]] = ToFloat(f.rows[r][3])
              /\ f.rows[r][2] \in ScopeNames(nodes, edges, SplitDisease(f.rows[r][2]))

\* a canonical name of category C: C_<label>, or <disease>_C_<label>
InCategory(name, type) == StartsWith(name, type \o "_") \/ Contains(name, "_" \o type \o "_")

\* C8: a completed deletion of category C with the `all` scope removes the category from every
\* disease scope and from the common scope: no name of the form <anyDisease>_C_<label> or C_<label>
\* that the registry held stays in the registry or on a Gene node.
C8_AllScopeRemovesCategory ==
  [][(/\ last'.op = "PropertyDeletion" /\ last'.outcome = "ok"
      /\ IsAllScope(PropertySelectorNamed(last'.arg)))
     => \A k \in RegistryNames(nodes) :
          InCategory(k, PropertySelectorNamed(last'.arg).type)
          => k \notin RegistryNames(nodes') /\ k \notin GeneKeys(genes')]_vars

(***************************************************************************)
(* Claims about the seed's inputs and validation, checked under Spec       *)
(***************************************************************************)
\* the dense input file a run record names
DenseFileNamed(name) == CHOOSE f \in DenseFiles : f.name = name

\* the data columns of a file whose header is a disease-dependent column under disease context D
\* (no general symbol, and a disease-dependent category once an optional D_ is stripped)
DependentColumns(f, disease) ==
  {j \in 2..Len(f.header) :
     /\ SymbolIndex(TrimHeader(f.header[j]), GENERAL_SYMBOLS \o f.forced) = 0
     /\ DependentIndex(TrimHeader(f.header[j]), disease) # 0}

\* D + "_" + renamed category + "_" + remainder for such a column
DependentName(header, disease) ==
  disease \o "_" \o RENAMED_FIELDS(DISEASE_DEPENDENT_FIELDS[DependentIndex(header, disease)]) \o "_"
    \o Slice(StripDisease(header, disease),
             Len(DISEASE_DEPENDENT_FIELDS[DependentIndex(header, disease)]) + 1)

\* C11: when a disease ID is given with -D/--disease, a completed seed has created the Disease
\* entry with that ID, and every disease-dependent column of the file is registered under that
\* disease and stored on the genes of its rows under the name prefixed with exactly that ID,
\* whatever the file's name.
C11_DiseaseFlagUsed ==
  (/\ last.op = "UniversalSeed" /\ last.outcome = "ok"
   /\ Truthy(DenseFileNamed(last.arg).flagDisease)
   /\ ~IsPrioritizationFile(last.arg))
  => LET f == DenseFileNamed(last.arg)
         D == f.flagDisease
     IN  /\ \E d \in nodes : "Disease" \in d.labels /\ "Property" \notin d.labels /\ d.ID = D
         /\ \A j \in DependentColumns(f, D) :
              LET name == DependentName(TrimHeader(f.header[j]), D)
              IN  /\ name \in ScopeNames(nodes, edges, D)
                  /\ \A r \in DOMAIN f.rows :
                       (f.rows[r][1] \in DOMAIN genes /\ f.rows[r][j] # "")
                       => name \in DOMAIN genes[f.rows[r][1]]

\* a file the seed's validation rejects: extension not .csv, file missing, header row with fewer
\* than two columns, or no header classified
InvalidInput(f) ==
  \/ ExtName(f.name) # ".csv"
  \/ ~f.exists
  \/ Len(f.header) < 2
  \/ \A j \in 2..Len(f.header) :
       ClassifyHeader(f.name, GENERAL_SYMBOLS \o f.forced,
                      ResolveDisease(f.name, f.flagDisease, f.di, f.answer), f.header[j]) = Undefined

InvalidFileNames == {f.name : f \in {x \in DenseFiles : InvalidInput(x)}}

\* C12: a seed whose input fails validation (extension not .csv, file missing, header row with
\* fewer than two columns, no header classified) ends before any mutation: no Gene property, no
\* registry entry and no Disease entry is created or changed.
C12_InvalidSeedMutatesNothing ==
  [][(last'.op = "UniversalSeed" /\ last'.arg \in InvalidFileNames)
     => /\ genes' = genes /\ nodes' = nodes /\ edges' = edges /\ stats' = stats
        /\ last'.outcome = "invalid"]_vars

\* C12 witness: on a database that holds gene properties and registry entries, the seed of each
\* kind of rejected file has run (here the file with no classified header, after a completed seed)
C12_Witness ==
  /\ last.op = "UniversalSeed" /\ last.arg = FileUnclassified.name /\ last.outcome = "invalid"
  /\ {FileTxt.name, FileMissing.name, FileOneColumn.name, FileUnclassified.name} = InvalidFileNames
  /\ nodes # {}
  /\ "TE_tissueA" \in DOMAIN genes["G1"]

\* two distinct data columns of the file classify to the same canonical name
AmbiguousInput(f) ==
  LET mapped == MappedHeaders(f, ResolveDisease(f.name, f.flagDisease, f.di, f.answer))
  IN  \E j, k \in DOMAIN mapped : j # k /\ mapped[j] # Undefined /\ mapped[j] = mapped[k]

AmbiguousFileNames == {f.name : f \in {x \in DenseFiles : AmbiguousInput(x)}}

\* C13: when two distinct raw headers of a file classify to the same canonical name the seed ends
\* with a validation error and mutates nothing; it never goes on with the later column
\* overwriting the earlier mapping.
C13_AmbiguousHeadersRejected ==
  [][(last'.op = "UniversalSeed" /\ last'.arg \in AmbiguousFileNames)
     => /\ genes' = genes /\ nodes' = nodes /\ edges' = edges
        /\ last'.outcome = "invalid"]_vars

(***************************************************************************)
(* Claims about failing and interrupted seed runs, checked under Spec      *)
(***************************************************************************)
\* the plan a seed run executed
RunPlan(l) ==
  IF l.op = "UniversalSeed" THEN SeedPlans[DenseFileNamed(l.arg)]
  ELSE SparsePlans[CHOOSE f \in SparseFiles : f.name = l.arg]

\* the sets of batches of the rows that are not all of its batches
ProperBatchSets(rows) == (SUBSET (1..NumBatches(rows))) \ {1..NumBatches(rows)}

\* C14: when a batch of a seed fails, the batches that committed stay applied (the genes are as
\* some of the batches, not all of them, left them), no further batch is applied and the
\* statement is not run again, the registry is not touched, and the run ends with a non-success
\* outcome.
C14_BatchFailureKeepsCommitted ==
  [][(last'.op \in {"UniversalSeed", "SparseSeed"} /\ last'.fault = "query"
        /\ last'.outcome # "invalid")
     => /\ last'.outcome = "error"
        /\ nodes' = nodes /\ edges' = edges
        /\ \/ NumBatches(RunPlan(last').rows) = 0 /\ genes' = genes
           \/ \E S \in ProperBatchSets(RunPlan(last').rows) : \E o \in SubsetOrders(S) :
                genes' = SeedRows(genes, ConcatBatches(RunPlan(last').rows, o))]_vars

\* C14 witness: the seed of FileCommon failed after its second batch (row G2) had committed and
\* before its first batch (rows G1, G9) did
C14_Witness ==
  /\ last.op = "UniversalSeed" /\ last.arg = FileCommon.name /\ last.fault = "query"
  /\ last.outcome = "error"
  /\ "Pathway_SITE_x" \in DOMAIN genes["G2"]
  /\ "TE_tissueA" \notin DOMAIN genes["G1"]

\* the registry one uninterrupted successful run of the plan leaves, starting from registry db
UninterruptedRegistry(db, p) ==
  MergeDiseaseAndProperties([nodes |-> MergeCommonProperties(db.nodes, p.commonHeaders),
                             edges |-> db.edges],
                            p.disease, p.diseaseHeaders)

\* a step that re-runs to success the seed that the run before it left unfinished (after some of
\* its batches, or after the gene mutation and before the end of the registry update)
RecoveryStep == last'.op \in {"UniversalSeed", "SparseSeed"} /\ last'.retry /\ last'.outcome = "ok"

DiseaseEntries(ns) == {n \in ns : "Disease" \in n.labels /\ "Property" \notin n.labels}

\* C16: under every operation a Disease entry is deleted only when it has no associated property:
\* a Disease entry that a step removes has no HAS_PROPERTY edge left, and none of the properties it
\* had an edge to is still in the registry.
C16_DiseaseDeletedOnlyWhenEmpty ==
  [][\A d \in DiseaseEntries(nodes) :
       d.id \notin NodeIds(nodes')
       => /\ \A e \in edges' : e[1] # d.id
          /\ \A e \in edges : e[1] = d.id => e[2] \notin NodeIds(nodes')]_vars

\* C16 witness: the disease mapping seed has named Disease ALS, kept it with its properties, and
\* deleted the unnamed Disease FTD, which had none
C16_Witness ==
  /\ last.op = "DiseaseMappingSeed" /\ last.outcome = "ok"
  /\ \E d \in DiseaseEntries(last.pre.nodes) : d.ID = "FTD" /\ \A e \in last.pre.edges : e[1] # d.id
  /\ \A d \in DiseaseEntries(nodes) : d.ID # "FTD"
  /\ \E d \in DiseaseEntries(nodes) : d.ID = "ALS" /\ \E e \in edges : e[1] = d.id

(***************************************************************************)
(* Claims about the values a dense seed stores, checked under Spec         *)
(***************************************************************************)
\* C17: a dense seed coerces each cell to a floating-point number before setting it on the gene,
\* and an empty or non-numeric cell sets nothing (the gene keeps what it had for that property).
C17_DenseCellsCoerced ==
  [][(last'.op = "UniversalSeed" /\ SeedQueryRan(last'))
     => \A w \in RunWrites(last').sole :
          w.id.v \in DOMAIN genes
          => IF w.value.type = "string" /\ ToFloat(w.value.v).type = "float"
             THEN /\ w.key \in DOMAIN genes'[w.id.v]
                  /\ genes'[w.id.v][w.key] = ToFloat(w.value.v)
             ELSE /\ (w.key \in DOMAIN genes'[w.id.v]) = (w.key \in DOMAIN genes[w.id.v])
                  /\ w.key \in DOMAIN genes[w.id.v]
                     => genes'[w.id.v][w.key] = genes[w.id.v][w.key]]_vars

(***************************************************************************)
(* Claims about how a seed row finds its gene, checked under Spec          *)
(***************************************************************************)
\* the genes a row identifier stands for: in HGNC-Symbol mode the genes whose approved symbol is
\* the upper-cased identifier, in ENSEMBL-ID mode the gene whose ID is the identifier
MatchedGenes(gs, idType, id) ==
  IF id.type # "string" THEN {}
  ELSE IF idType = "HGNC-Symbol"
       THEN {g \in DOMAIN gs : "Gene_name" \in DOMAIN gs[g]
                                /\ gs[g]["Gene_name"] = StringValue(ToUpper(id.v))}
       ELSE {g \in DOMAIN gs : g = id.v}

\* C18: a seed given with HGNC-Symbol matches each row to the gene whose approved symbol (or
\* alias) is the upper-cased value of the row, a seed given with ENSEMBL-ID to the gene with that
\* ID: the matched gene carries the values of the row, and a gene no row matches is left alone.
C18_RowMatchedByIdType ==
  [][(last'.op = "UniversalSeed" /\ SeedQueryRan(last'))
     => /\ \A w \in RunWrites(last').sole :
             \A g \in MatchedGenes(genes, DenseFileNamed(last'.arg).idType, w.id) :
               w.value.type # "null"
               => w.key \in DOMAIN genes'[g] /\ genes'[g][w.key] = w.value
        /\ \A g \in DOMAIN genes :
             (\A id \in RunWrites(last').ids :
                g \notin MatchedGenes(genes, DenseFileNamed(last'.arg).idType, id))
             => genes'[g] = genes[g]]_vars

(***************************************************************************)
(* Claims about the commit order of concurrent batches, checked under Spec *)
(***************************************************************************)
\* C19 as stated: for a seed file in which each canonical property maps to exactly one source
\* column, the gene values a run leaves are the same for every order in which the batches commit.
C19_OneColumnOrderIndependent ==
  [][(/\ SeedQueryRan(last')
      /\ last'.op = "UniversalSeed" => last'.arg \notin AmbiguousFileNames)
     => \A rows \in RunPlan(last').schedules : genes' = SeedRows(genes, rows)]_vars

\* C19 amended: for a seed file in which no two rows of different batches give the same property
\* of the same gene, the gene values a run leaves are the same for every order in which the
\* batches commit.
C19_ConflictFreeOrderIndependent ==
  [][(SeedQueryRan(last') /\ RunWrites(last').conflictFree)
     => \A rows \in RunPlan(last').schedules : genes' = SeedRows(genes, rows)]_vars

\* C19 witness: the sparse seed of SparseFile has run its two batches, which both name gene G1 and
\* give it different properties, and G1 carries both
C19_Witness ==
  /\ last.op = "SparseSeed" /\ last.arg = SparseFile.name /\ last.fault = "none"
  /\ NumBatches(SparsePlans[SparseFile].rows) = 2
  /\ SparsePlanWrites[SparseFile.name].conflictFree
  /\ "EFO_0000095_OpenTargets_score" \in DOMAIN genes["G1"]
  /\ "MONDO_1_OpenTargets_score" \in DOMAIN genes["G1"]

(***************************************************************************)
(* Claims about the registry update of a seed run, checked under Spec      *)
(***************************************************************************)
\* the (scope, canonical name) pairs the plan of a seed run uses
PlanNames(l) ==
  IF l.op = "UniversalSeed"
  THEN {<<"common", h>> : h \in Range(RunPlan(l).commonHeaders)}
       \cup {<<RunPlan(l).disease, h>> : h \in Range(RunPlan(l).diseaseHeaders)}
  ELSE {<<SplitDisease(r[2]), r[2]>> : r \in Range((CHOOSE f \in SparseFiles : f.name = l.arg).rows)}

\* the registry entries of a name under a scope
ScopeEntries(ns, es, scope, name) ==
  IF scope = "common"
  THEN {n \in ns : {"Common", "Property"} \subseteq n.labels /\ n.name = name}
  ELSE {n \in ns : /\ "Property" \in n.labels /\ n.name = name
                   /\ \E d \in DiseaseEntries(ns) : d.ID = scope /\ <<d.id, n.id>> \in es}

\* C20: a seed run modifies the registry only after its gene mutation has completed (a run whose
\* mutation fails leaves the registry as it was), and after a run in which nothing failed every
\* canonical name of the plan has exactly one entry under its scope.
C20_RegistryAfterMutation ==
  [][(last'.op \in {"UniversalSeed", "SparseSeed"} /\ last'.outcome # "invalid")
     => /\ ~SeedQueryRan(last') => (nodes' = nodes /\ edges' = edges)
        /\ last'.fault = "none"
           => \A sn \in PlanNames(last') :
                Cardinality(ScopeEntries(nodes', edges', sn[1], sn[2])) = 1]_vars

(***************************************************************************)
(* Claims about the steps of one deletion, checked under Spec              *)
(***************************************************************************)
\* the Property nodes the deletion with selector sel selects in registry ns
DeletionSelected(ns, sel) ==
  SelectedProperties(ns, DeletionColumn(sel.type, DeletionDisease(sel.type, sel.disease, sel.all)),
                     sel.header)

StatsSelectorNamed(name) == CHOOSE sel \in StatsSelectors : sel.name = name

\* the disease scope of a Stats-node deletion ("common" when it has none)
StatsSelectorScope(sel) == StatsScope(StatsDisease(sel.type, sel.disease))

\* C22: after a completed disease-scoped deletion that removed the last registered property of a
\* disease, the Disease entry is gone, in each deletion variant: the Disease node with Property
\* nodes as registry, the entry of the disease in s.disease with the Stats node as registry.
C22_LastPropertyRemovesDisease ==
  [][/\ (last'.op = "PropertyDeletion" /\ last'.outcome = "ok")
        => \A d \in DiseaseEntries(nodes) :
             (/\ \E e \in edges : e[1] = d.id
              /\ \A e \in edges : e[1] = d.id => e[2] \notin NodeIds(nodes'))
             => d \notin nodes'
     /\ (/\ last'.op = "StatsDeletion" /\ last'.outcome = "ok"
         /\ StatsSelectorScope(StatsSelectorNamed(last'.arg)) # "common"
         /\ StatsList(stats, StatsSelectorScope(StatsSelectorNamed(last'.arg))) # <<>>
         /\ StatsList(stats', StatsSelectorScope(StatsSelectorNamed(last'.arg))) = <<>>)
        => StatsSelectorScope(StatsSelectorNamed(last'.arg)) \notin Range(StatsList(stats', "disease"))]_vars

(***************************************************************************)
(* Claims about headers the classifier drops, checked under Spec           *)
(***************************************************************************)
\* the data columns of a file that classify to no canonical name
DroppedColumns(f) ==
  {j \in 2..Len(f.header) :
     ClassifyHeader(f.name, GENERAL_SYMBOLS \o f.forced,
                    ResolveDisease(f.name, f.flagDisease, f.di, f.answer), f.header[j]) = Undefined}

\* the dense files with a dropped column
DroppingFileNames == {f.name : f \in {x \in DenseFiles : DroppedColumns(x) # {}}}

\* C24: a header that matches no rule (a disease-dependent category without disease context
\* included) is dropped and does not stop the run: when at least one other header of the file
\* classifies, the run goes on, every classified name is registered, and every gene a row names
\* carries the row's value for every classified name; the dropped header is on no gene.
C24_DroppedHeaderDoesNotStopRun ==
  [][(/\ last'.op = "UniversalSeed" /\ last'.fault = "none"
      /\ last'.arg \in DroppingFileNames
      /\ last'.arg \notin InvalidFileNames)
     => /\ last'.outcome # "invalid"
        /\ Range(RunPlan(last').headers) \subseteq RegistryNames(nodes')
        /\ \A w \in RunWrites(last').sole :
             (w.id.v \in DOMAIN genes /\ w.value.type # "null")
             => w.key \in DOMAIN genes'[w.id.v] /\ genes'[w.id.v][w.key] = w.value
        /\ GeneKeys(genes') \subseteq GeneKeys(genes) \cup Range(RunPlan(last').headers)]_vars

\* C24 witness: the seed of FileCommon, which has an unknown header and a header of a
\* disease-dependent category without disease context, has seeded and registered TE_tissueA
C24_Witness ==
  /\ last.op = "UniversalSeed" /\ last.arg = FileCommon.name /\ last.fault = "none"
  /\ Cardinality(DroppedColumns(FileCommon)) = 2
  /\ "TE_tissueA" \in DOMAIN genes["G1"]
  /\ "TE_tissueA" \in RegistryNames(nodes)
  /\ \A k \in GeneKeys(genes) : ~Contains(k, "LogFC") /\ ~Contains(k, "DEG_y") /\ k # "Unknown"

(***************************************************************************)
(* Claims about what a seed registers, checked under Spec                  *)
(***************************************************************************)
\* C26: a seed whose classified headers are all common-scope creates no Disease entry, and a
\* completed seed leaves no Disease entry without property that was not there before.
C26_CommonSeedCreatesNoDisease ==
  [][(last'.op = "UniversalSeed" /\ last'.outcome = "ok")
     => /\ RunPlan(last').diseaseHeaders = <<>> => DiseaseEntries(nodes') = DiseaseEntries(nodes)
        /\ \A d \in DiseaseEntries(nodes') \ DiseaseEntries(nodes) :
             \E e \in edges' : e[1] = d.id]_vars

\* the categories of canonical names
Categories == {"TE", "Pathway", "Druggability", "OT_Prioritization", "DEG", "OpenTargets", "Database"}

\* the identity attributes of a gene
IdentityAttributes == {"Gene_name", "Description", "hgnc_gene_id"}

\* C27: every registry entry a seed writes is named <Category>_<label> and registered as common, or
\* <DiseaseID>_<Category>_<label> and registered under that disease; identity attributes and
\* forced headers are never registered.
C27_RegisteredNamesWellFormed ==
  [][(last'.op = "UniversalSeed" /\ last'.fault = "none")
     => \A p \in {n \in nodes' \ nodes : "Property" \in n.labels} :
          /\ p.name \notin IdentityAttributes
          /\ p.name \notin Range(DenseFileNamed(last'.arg).forced)
          /\ IF "Common" \in p.labels
             THEN \E c \in Categories : StartsWith(p.name, c \o "_")
             ELSE /\ \E d \in DiseaseEntries(nodes') : <<d.id, p.id>> \in edges'
                  /\ \A d \in DiseaseEntries(nodes') :
                       <<d.id, p.id>> \in edges'
                       => \E c \in Categories : StartsWith(p.name, d.ID \o "_" \o c \o "_")]_vars

(***************************************************************************)
(* Claims about seed and deletion together, checked under Spec             *)
(***************************************************************************)
\* the prefix of the names of category and scope of a Stats-node deletion
StatsSelectorPrefix(sel) ==
  (IF StatsSelectorScope(sel) = "common" THEN "" ELSE StatsSelectorScope(sel) \o "_")
    \o sel.type \o "_"

\* C28: seed and deletion agree on the registry: after a completed seed followed by a deletion in
\* which nothing failed, in either deletion script, no gene carries a name that the seed
\* registered under the scope of the deletion and that starts with the prefix of the deletion.
C28_DeletionResolvesSeededNames ==
  [][(last.op = "UniversalSeed" /\ last.outcome = "ok" /\ last'.fault = "none")
     => /\ (last'.op = "PropertyDeletion" /\ ~IsAllScope(PropertySelectorNamed(last'.arg)))
           => \A k \in SeededNames(last)
                        \cap ScopeNames(nodes, edges, SelectorScope(PropertySelectorNamed(last'.arg))) :
                StartsWith(k, SelectorPrefix(PropertySelectorNamed(last'.arg)))
                => k \notin GeneKeys(genes')
        /\ last'.op = "StatsDeletion"
           => \A k \in SeededNames(last)
                        \cap ScopeNames(nodes, edges, StatsSelectorScope(StatsSelectorNamed(last'.arg))) :
                StartsWith(k, StatsSelectorPrefix(StatsSelectorNamed(last'.arg)))
                => k \notin GeneKeys(genes')]_vars

ClsFiles == {"data.csv", "ALS_data.csv", "ot_target_prioritization_score.csv",
             "ALS_target_prioritization_score.csv"}

ClsForced == {<<>>, <<"GWAS_p-value">>, <<"description">>}

ClsAnswers == {"", "als", "MONDO_1"}

ClsHeaders == {"Gene name", "gene_name", " \"Description\" ", "hgnc_gene_id",
               "GWAS_p-value", "ALS_GWAS_p-value", "als_logfc_x", "mondo_1_DEG_x",
               "TE_tissueA", "te_tissueA", "Druggability_Score_a", "ALS_TE_tissueA",
               "Unknown", "GDA_"}

ClsInit ==
  /\ cls \in [file : ClsFiles, flagDisease : {Undefined, "PSP"}, di : BOOLEAN,
              answer : ClsAnswers, forced : ClsForced, raw : ClsHeaders,
              disease : {Undefined}, result : {Undefined}, pc : {"start"}]
  /\ genes = InitGenes
  /\ nodes = {}
  /\ edges = {}
  /\ stats = <<>>
  /\ last = NoRun
  /\ ref = NoRef
  /\ rels = {}

ClsResolve ==
  /\ cls.pc = "start"
  /\ cls' = [cls EXCEPT !.disease = ResolveDisease(cls.file, cls.flagDisease, cls.di, cls.answer),
                        !.pc = "resolved"]
  /\ UNCHANGED <<genes, nodes, edges, stats, last, ref, rels>>

ClsClassify ==
  /\ cls.pc = "resolved"
  /\ cls' = [cls EXCEPT !.result = ClassifyHeader(cls.file, GENERAL_SYMBOLS \o cls.forced,
                                                  cls.disease, cls.raw),
                        !.pc = "classified"]
  /\ UNCHANGED <<genes, nodes, edges, stats, last, ref, rels>>

ClsNext == ClsResolve \/ ClsClassify

SpecClassify == ClsInit /\ [][ClsNext]_vars

(***************************************************************************)
(* Claims about the header classifier, checked under SpecClassify          *)
(***************************************************************************)
\* C9: with a disease context D, a header that after stripping an optional case-insensitive D_
\* starts case-insensitively with a disease-dependent category name and "_" (and is no general
\* symbol, which the priority order tries first) is classified to
\* D + "_" + renamed category + "_" + remainder.
C9_DiseaseDependentName ==
  LET header == TrimHeader(cls.raw)
      i == DependentIndex(header, cls.disease)
  IN  (/\ cls.pc = "classified"
       /\ Truthy(cls.disease)
       /\ i # 0
       /\ SymbolIndex(header, GENERAL_SYMBOLS \o cls.forced) = 0)
      => cls.result = cls.disease \o "_" \o RENAMED_FIELDS(DISEASE_DEPENDENT_FIELDS[i]) \o "_"
                        \o Slice(StripDisease(header, cls.disease), Len(DISEASE_DEPENDENT_FIELDS[i]) + 1)

\* C10: a header that case-insensitively equals a configured general symbol is classified to the
\* rename-table name of that symbol, for every input file and under every disease context.
C10_GeneralSymbolName ==
  LET header == TrimHeader(cls.raw)
      symbols == GENERAL_SYMBOLS \o cls.forced
      i == SymbolIndex(header, symbols)
  IN  (cls.pc = "classified" /\ i # 0) => cls.result = RENAMED_FIELDS(symbols[i])

\* C23: the classification of a header depends only on the header, the disease context and the
\* rule tables: the result for a file of any name, with any headers forced, is the result the same
\* header and disease context have for a file of a neutral name with no header forced.
C23_ClassifyDependsOnHeaderAndDisease ==
  cls.pc = "classified"
  => cls.result = ClassifyHeader("data.csv", GENERAL_SYMBOLS, cls.disease, cls.raw)

(***************************************************************************)
(* Claims about the reference genome update, checked under SpecReference   *)
(***************************************************************************)
\* the gene IDs that occur in the reference file of the run
ReferenceIDs ==
  UNION {{LoadGeneID(f.rows[r]) : r \in DOMAIN f.rows} \ {Null} :
           f \in {x \in ReferenceFiles : x.name = ref.file}}

\* C25: the reference genome update deletes only genes whose ID is absent from the reference file:
\* however the parse of the file interleaves with the queries, no ID of the file is among the genes
\* to delete, and at the end of the run every gene of the file is in the database.
C25_OnlyAbsentGenesDeleted ==
  /\ ref.pc \in {"diffed", "loaded", "done"} => ref.diffGenes \cap ReferenceIDs = {}
  /\ ref.pc = "done" => ReferenceIDs \subseteq DOMAIN genes


(***************************************************************************)
(* Claims about the interaction seeds, checked under SpecInteraction       *)
(***************************************************************************)
\* the file of an interaction run
InteractionFileNamed(name) == CHOOSE f \in InteractionFiles : f.name = name

\* the first line of the file of a run that names the pair of a relationship, under the
\* matching of the seed that ran
FirstLineOf(run, gs, r) ==
  LET rows == InteractionFileNamed(run.arg.file).rows
      hits == {i \in DOMAIN rows :
                 IF run.op = "InteractionSeed"
                 THEN /\ r.from \in MatchGene(gs, run.arg.idType, rows[i][1])
                      /\ r.to \in MatchGene(gs, run.arg.idType, rows[i][2])
                 ELSE r.from = rows[i][1] /\ r.to = rows[i][2]}
  IN  IF hits = {} THEN 0 ELSE CHOOSE i \in hits : \A j \in hits : i <= j

\* C30: interaction seeds keep at most one relationship of a type from gene A to gene B; a
\* relationship that exists is neither removed nor rescored by a later seed, a relationship a
\* seed creates has the score (through toFloat) of the first line of its file that names the
\* pair, and the newer seed creates no Gene node.
C30_OneRelationshipFirstScore ==
  [][/\ \A r, q \in rels' : (r.type = q.type /\ r.from = q.from /\ r.to = q.to) => r = q
     /\ rels \subseteq rels'
     /\ \A r \in rels' \ rels :
          /\ r.type = last'.arg.type
          /\ FirstLineOf(last', genes, r) # 0
          /\ r.score = ToFloat(InteractionFileNamed(last'.arg.file).rows[FirstLineOf(last', genes, r)][3])
     /\ last'.op = "InteractionSeed" => genes' = genes]_vars

\* C30 witness: the pair G1 -> G2 was created with the score 0.6 by the first of two lines that
\* name it, and the newer seed has since run on a file that scores the pair 0.3
C30_Witness ==
  /\ last.op = "InteractionSeed" /\ last.arg.file = "data/ppi_rescored.csv" /\ last.arg.type = "PPI"
  /\ last.arg.idType = "ENSEMBL-ID" /\ last.outcome = "ok" /\ last.n >= 2
  /\ [type |-> "PPI", from |-> "G1", to |-> "G2", score |-> FloatValue("0.6")] \in rels
  /\ Cardinality({r \in rels : r.type = "PPI" /\ r.from = "G1" /\ r.to = "G2"}) = 1

====
